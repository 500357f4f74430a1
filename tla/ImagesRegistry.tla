--------------------------- MODULE ImagesRegistry ---------------------------
(***************************************************************************)
(* com.cateye.ui.ImagesRegistry: the images that are known, the state of   *)
(* each load, the decoded bitmaps, and the threads that load them.         *)
(*                                                                         *)
(* Three kinds of code take steps: the UI thread (it alone calls           *)
(* requestOrLoadImage, loadImage, forgetImage and                          *)
(* unregisterImageLoaderReporter), the loader threads that loadImage       *)
(* starts, and the native decoder that calls back into Java.  The maps are *)
(* synchronizedMaps, so that a single get or put is one step and nothing   *)
(* more is.  The UI thread and the loaders never take the same lock except *)
(* the monitor of ImageLoaderReporters.                                    *)
(***************************************************************************)
EXTENDS ImageLoaderReporters, RawImageLoader, Naturals, Sequences

CONSTANTS
    MaxProgress,    \* bound: how often one decode calls raiseProgress
    FrontEnd,       \* "android": activities come, go and forget images;
                    \* "swt": one window that does none of this
    DecodeErrors    \* what a failed decoding may throw: "NoSuchMethodError"
                    \* is what the native code does throw, "LibRawException"
                    \* what it means to throw and run() is written for

ASSUME BoundAssumption == MaxProgress \in Nat
ASSUME FrontEndAssumption == FrontEnd \in {"android", "swt"}
ASSUME DecodeErrorsAssumption ==
    DecodeErrors \subseteq {"LibRawException", "NoSuchMethodError"}

LoadingState == {"NotLoadedYet", "LoadingInProgress", "Loaded", "LoadingError"}

ASSUME StateAssumption == NULL \notin LoadingState

VARIABLES
    registry,       \* file -> image
    loadingStates,  \* image -> state of its load; NULL: no entry
    loadedBitmaps,  \* image -> bitmap; NULL: no entry
    pc,             \* loader thread -> where it is in run()
    target,         \* loader thread -> the image it loads
    result,         \* loader thread -> `result` or `resultException`
    raised,         \* loader thread -> raiseProgress calls of its decoding
    freed,          \* the bitmaps whose native memory forgetImage released
    ui,             \* where the UI thread is, and for which client
    phase,          \* client -> its life cycle
    image,          \* client -> the image it shows
    received,       \* client -> what its reporter was called with
    posted,         \* client -> what its reporter left to the UI thread to do
    dialog,         \* client -> the activity's progress dialog is showing
    alive           \* no exception has left a thread and ended the process

registryVars == <<registry, loadingStates, loadedBitmaps>>
threadVars == <<pc, target, result, raised>>
clientVars == <<phase, image, received, posted, dialog>>
vars == <<reportersVars, loaderVars, registryVars, threadVars, clientVars,
          freed, ui, alive>>

ThreadPc == {"unborn", "created", "zero", "begin", "getBitmap", "native",
             "raise", "listener", "assign", "unlisten", "setState",
             "putBitmap", "report", "done", "killed"}

UiStep == {"idle", "load", "register", "isInProgress", "join", "isLoaded",
           "return", "forget"}

ClientPhase == {"new", "loading", "open", "finishing", "gone"}

Posts == Seq({"show", "dismiss"})

AtUi(step, c) == [step |-> step, client |-> c]
Idle == AtUi("idle", NULL)

TypeOK ==
    /\ ReportersTypeOK
    /\ RawImageLoaderTypeOK
    /\ registry \in [Files -> Images \union {NULL}]
    /\ loadingStates \in [Images -> LoadingState \union {NULL}]
    /\ loadedBitmaps \in [Images -> Loaders \union {NULL}]
    /\ pc \in [Loaders -> ThreadPc]
    /\ target \in [Loaders -> Images \union {NULL}]
    /\ result \in [Loaders -> Loaders \union {NULL, Failed}]
    /\ raised \in [Loaders -> 0 .. MaxProgress]
    /\ freed \in SUBSET Loaders
    /\ ui \in [step : UiStep, client : Clients \union {NULL}]
    /\ phase \in [Clients -> ClientPhase]
    /\ image \in [Clients -> Images \union {NULL}]
    /\ received \in [Clients -> SUBSET (Loaders \union {NULL, Failed})]
    /\ posted \in [Clients -> Posts]
    /\ dialog \in [Clients -> BOOLEAN]
    /\ alive \in BOOLEAN

Init ==
    /\ ReportersInit
    /\ RawImageLoaderInit
    /\ registry = [f \in Files |-> NULL]
    /\ loadingStates = [i \in Images |-> NULL]
    /\ loadedBitmaps = [i \in Images |-> NULL]
    /\ pc = [t \in Loaders |-> "unborn"]
    /\ target = [t \in Loaders |-> NULL]
    /\ result = [t \in Loaders |-> NULL]
    /\ raised = [t \in Loaders |-> 0]
    /\ freed = {}
    /\ ui = Idle
    /\ phase = [c \in Clients |-> "new"]
    /\ image = [c \in Clients |-> NULL]
    /\ received = [c \in Clients |-> {}]
    /\ posted = [c \in Clients |-> <<>>]
    /\ dialog = [c \in Clients |-> FALSE]
    /\ alive = TRUE

-----------------------------------------------------------------------------
(* The UI thread.                                                          *)

UiAt(step, c) == alive /\ ui = AtUi(step, c)

GoTo(step, c) == ui' = AtUi(step, c)

(* onCreate and openWithFile: requestOrLoadImage finds the file's image or *)
(* makes one; then loadImage is called.                                    *)
OpenKnown(c, f) ==
    /\ registry[f] # NULL
    /\ image' = [image EXCEPT ![c] = registry[f]]
    /\ UNCHANGED <<loaderVars, registryVars>>

OpenNew(c, f, i) ==
    /\ registry[f] = NULL
    /\ CreateImageFromFile(i, f)
    /\ registry' = [registry EXCEPT ![f] = i]
    /\ loadingStates' = [loadingStates EXCEPT ![i] = "NotLoadedYet"]
    /\ image' = [image EXCEPT ![c] = i]
    /\ UNCHANGED loadedBitmaps

RequestOrLoadImage(c) ==
    /\ alive /\ ui = Idle
    /\ phase[c] = "new"
    /\ phase' = [phase EXCEPT ![c] = "loading"]
    /\ \E f \in Files : OpenKnown(c, f) \/ \E i \in Images : OpenNew(c, f, i)
    /\ GoTo("load", c)
    /\ UNCHANGED <<reportersVars, threadVars, received, posted, dialog, freed,
                   alive>>

(* loadImage, first test true: a listener for the thread to be.            *)
NeedsLoading(i) == loadingStates[i] \in {"NotLoadedYet", "LoadingError"}

LoadImageStarts(c, t) ==
    /\ UiAt("load", c)
    /\ NeedsLoading(image[c])
    /\ pc[t] = "unborn"
    /\ pc' = [pc EXCEPT ![t] = "created"]
    /\ target' = [target EXCEPT ![t] = image[c]]
    /\ AddProgressListener(t)
    /\ GoTo("register", c)
    /\ UNCHANGED <<reportersVars, registryVars, result, raised, clientVars,
                   freed, alive>>

(* ... the reporter is added and the thread is started.                    *)
StartThread(c, t) ==
    /\ UiAt("register", c)
    /\ pc[t] = "created"
    /\ Add(image[c], c)
    /\ pc' = [pc EXCEPT ![t] = "zero"]
    /\ GoTo("return", c)
    /\ UNCHANGED <<loaderVars, registryVars, target, result, raised,
                   clientVars, freed, alive>>

LoadImageSkips(c) ==
    /\ UiAt("load", c)
    /\ ~ NeedsLoading(image[c])
    /\ GoTo("isInProgress", c)
    /\ UNCHANGED <<reportersVars, loaderVars, registryVars, threadVars,
                   clientVars, freed, alive>>

(* loadImage reads the state anew for each of its tests.                   *)
TestInProgress(c) ==
    /\ UiAt("isInProgress", c)
    /\ IF loadingStates[image[c]] = "LoadingInProgress"
       THEN GoTo("join", c)
       ELSE GoTo("isLoaded", c)
    /\ UNCHANGED <<reportersVars, loaderVars, registryVars, threadVars,
                   clientVars, freed, alive>>

Join(c) ==
    /\ UiAt("join", c)
    /\ Add(image[c], c)
    /\ GoTo("return", c)
    /\ UNCHANGED <<loaderVars, registryVars, threadVars, clientVars, freed,
                   alive>>

(* Called in the UI thread, the activity's reporter does its work at once: *)
(* it dismisses the progress dialog.                                       *)
TestLoaded(c) ==
    /\ UiAt("isLoaded", c)
    /\ IF loadingStates[image[c]] = "Loaded"
       THEN /\ received' = [received EXCEPT ![c] =
                               @ \union {loadedBitmaps[image[c]]}]
            /\ dialog' = [dialog EXCEPT ![c] = FALSE]
       ELSE UNCHANGED <<received, dialog>>
    /\ GoTo("return", c)
    /\ UNCHANGED <<reportersVars, loaderVars, registryVars, threadVars, phase,
                   image, posted, freed, alive>>

(* loadImage returns the state, read once more; onCreate shows the dialog  *)
(* when the load is pending.                                               *)
Return(c) ==
    /\ UiAt("return", c)
    /\ phase' = [phase EXCEPT ![c] = "open"]
    /\ IF /\ FrontEnd = "android"
          /\ loadingStates[image[c]] \in {"NotLoadedYet", "LoadingInProgress"}
       THEN dialog' = [dialog EXCEPT ![c] = TRUE]
       ELSE UNCHANGED dialog
    /\ ui' = Idle
    /\ UNCHANGED <<reportersVars, loaderVars, registryVars, threadVars, image,
                   received, posted, freed, alive>>

(* The UI thread runs what an activity's reporter has posted, in the order *)
(* of the posts: a progress shows the dialog, an outcome dismisses it.     *)
(* Nothing takes the runnables of a destroyed activity back.  Its dialog   *)
(* shows without a window to belong to, or the window manager refuses it   *)
(* with a BadTokenException, which ends the process.                       *)
ShowProgress(c) ==
    /\ Head(posted[c]) = "show"
    /\ dialog' = [dialog EXCEPT ![c] = TRUE]
    /\ UNCHANGED alive

ShowIsRefused(c) ==
    /\ Head(posted[c]) = "show"
    /\ phase[c] = "gone" /\ ~ dialog[c]
    /\ alive' = FALSE
    /\ UNCHANGED dialog

LeaveProgress(c) ==
    /\ Head(posted[c]) = "dismiss"
    /\ UNCHANGED <<dialog, alive>>
DismissProgress(c) ==
    /\ Head(posted[c]) = "dismiss"
    /\ dialog' = [dialog EXCEPT ![c] = FALSE]
    /\ UNCHANGED alive

RunPosted(c) ==
    /\ alive /\ ui = Idle
    /\ posted[c] # <<>>
    /\ posted' = [posted EXCEPT ![c] = Tail(@)]
    /\ ShowProgress(c) \/ ShowIsRefused(c) \/ DismissProgress(c)
    /\ UNCHANGED <<reportersVars, loaderVars, registryVars, threadVars, phase,
                   image, received, freed, ui>>

(* A map's remove with something that is not a key of it removes nothing.  *)
ForgetStateOnly(f, i) ==
    /\ loadingStates' = [loadingStates EXCEPT ![i] = NULL]
    /\ UNCHANGED registry
ForgetByWrongKey(f, i) == UNCHANGED <<registry, loadingStates>>
Forget(f, i) ==
    /\ registry' = [registry EXCEPT ![f] = NULL]
    /\ loadingStates' = [loadingStates EXCEPT ![i] = NULL]

(* onBackPressed: the activity finishes and the image is forgotten.  The   *)
(* dialog is not cancelable and hides the Back key.  First the image and   *)
(* its state leave the maps; a second activity may have done it before.    *)
Back(c) ==
    /\ FrontEnd = "android"
    /\ alive /\ ui = Idle
    /\ phase[c] = "open" /\ ~ dialog[c]
    /\ phase' = [phase EXCEPT ![c] = "finishing"]
    /\ \/ \E f \in Files :
            /\ registry[f] = image[c]
            /\ Forget(f, image[c])
            /\ GoTo("forget", c)
       \/ /\ \A f \in Files : registry[f] # image[c]
          /\ UNCHANGED <<registry, loadingStates, ui>>
    /\ UNCHANGED <<reportersVars, loaderVars, loadedBitmaps, threadVars, image,
                   received, posted, dialog, freed, alive>>

(* ... then loadedBitmaps.get(image).free(), which throws when there is no *)
(* bitmap or when it was freed before.                                     *)
CanFree(b) == b # NULL /\ b \notin freed

FreeForgotten(c) ==
    LET b == loadedBitmaps[image[c]] IN
    /\ UiAt("forget", c)
    /\ IF CanFree(b)
       THEN /\ freed' = freed \union {b}
            /\ loadedBitmaps' = [loadedBitmaps EXCEPT ![image[c]] = NULL]
            /\ UNCHANGED alive
       ELSE /\ alive' = FALSE
            /\ UNCHANGED <<freed, loadedBitmaps>>
    /\ ui' = Idle
    /\ UNCHANGED <<reportersVars, loaderVars, registry, loadingStates,
                   threadVars, clientVars>>

(* onDestroy, after Back or when the system destroys the activity (to      *)
(* rebuild it after a rotation): the dialog is dismissed, the reporter     *)
(* unregistered; what the reporter has posted stays posted.                *)
Destroy(c) ==
    /\ FrontEnd = "android"
    /\ alive /\ ui = Idle
    /\ phase[c] \in {"open", "finishing"}
    /\ Remove(image[c], c)
    /\ phase' = [phase EXCEPT ![c] = "gone"]
    /\ dialog' = [dialog EXCEPT ![c] = FALSE]
    /\ UNCHANGED <<loaderVars, registryVars, threadVars, image, received,
                   posted, freed, ui, alive>>

-----------------------------------------------------------------------------
(* A loader thread: the body of run().                                     *)

LoaderAt(t, where) == alive /\ pc[t] = where

Become(t, where) == pc' = [pc EXCEPT ![t] = where]

(* The window's reporter runs its work in the UI thread and waits for it   *)
(* (Display.syncExec); the activity's reporter posts it and returns.       *)
ReporterRuns(c, work) ==
    \/ /\ FrontEnd = "swt" /\ ui = Idle
       /\ UNCHANGED posted
    \/ /\ FrontEnd = "android"
       /\ posted' = [posted EXCEPT ![c] = Append(@, work)]

(* An exception that run() does not catch ends the process on Android; on  *)
(* the desktop it ends this thread, wherever it is, and nothing else.      *)
Uncaught(t) ==
    \/ /\ FrontEnd = "android"
       /\ alive' = FALSE
       /\ UNCHANGED pc
    \/ /\ FrontEnd = "swt"
       /\ Become(t, "killed")
       /\ UNCHANGED alive

ReportProgress(t, i, before, after) ==
    /\ LoaderAt(t, before)
    /\ \/ /\ CallReportEnter(t, i)
          /\ UNCHANGED <<pc, posted>>
       \/ \E c \in Clients :
            /\ CallReportNext(t, c)
            /\ ReporterRuns(c, "show")
            /\ UNCHANGED pc
       \/ /\ CallReportLeave(t)
          /\ Become(t, after)
          /\ UNCHANGED posted
    /\ UNCHANGED <<loaderVars, registryVars, target, result, raised, phase,
                   image, received, dialog, freed, ui, alive>>

ReportZero(t) == ReportProgress(t, target[t], "zero", "begin")

(* The state becomes LoadingInProgress only here, in the new thread.       *)
Begin(t) ==
    /\ LoaderAt(t, "begin")
    /\ loadingStates' =
           [loadingStates EXCEPT ![target[t]] = "LoadingInProgress"]
    /\ Become(t, "getBitmap")
    /\ UNCHANGED <<reportersVars, loaderVars, registry, loadedBitmaps, target,
                   result, raised, clientVars, freed, ui, alive>>

(* RawImage.getBitmap: the field when it is set, else a decoding.          *)
GetBitmap(t) ==
    /\ LoaderAt(t, "getBitmap")
    /\ IF bitmap[target[t]] # NULL
       THEN /\ result' = [result EXCEPT ![t] = bitmap[target[t]]]
            /\ Become(t, "unlisten")
       ELSE /\ Become(t, "native")
            /\ UNCHANGED result
    /\ UNCHANGED <<reportersVars, loaderVars, registryVars, target, raised,
                   clientVars, freed, ui, alive>>

(* The decoder calls raiseProgress; every listener in the list, this       *)
(* thread's and the others', reports to the reporters of its own image.    *)
MayRaise(t) == raised[t] < MaxProgress

NativeRaises(t) ==
    /\ LoaderAt(t, "native")
    /\ MayRaise(t)
    /\ raised' = [raised EXCEPT ![t] = @ + 1]
    /\ RaiseProgressStart(t)
    /\ Become(t, "raise")
    /\ UNCHANGED <<reportersVars, registryVars, target, result, clientVars,
                   freed, ui, alive>>

CallListener(t, l) ==
    /\ LoaderAt(t, "raise")
    /\ RaiseProgressCall(t, l)
    /\ Become(t, "listener")
    /\ UNCHANGED <<reportersVars, registryVars, target, result, raised,
                   clientVars, freed, ui, alive>>

RunListener(t) ==
    ReportProgress(t, target[calling[t]], "listener", "raise")

EndRaise(t) ==
    /\ LoaderAt(t, "raise")
    /\ RaiseProgressEnd(t)
    /\ Become(t, "native")
    /\ UNCHANGED <<reportersVars, registryVars, target, result, raised,
                   clientVars, freed, ui, alive>>

(* The exception crosses the native frames and leaves run().               *)
RaiseThrows(t) ==
    /\ LoaderAt(t, "raise")
    /\ RaiseProgressThrows(t)
    /\ Uncaught(t)
    /\ UNCHANGED <<reportersVars, registryVars, target, result, raised,
                   clientVars, freed, ui>>

(* loadPreciseBitmapFromFile returns a bitmap or fails.  When LibRaw gives *)
(* up, the native code looks LibRawException's static factory up as an     *)
(* instance method, and what reaches run() is a NoSuchMethodError, which   *)
(* it does not catch.                                                      *)
Decoded(t) ==
    /\ LoaderAt(t, "native")
    /\ Become(t, "assign")
    /\ raised' = [raised EXCEPT ![t] = 0]
    /\ UNCHANGED <<reportersVars, loaderVars, registryVars, target, result,
                   clientVars, freed, ui, alive>>

DecodeFailsWithNull(t) ==
    /\ LoaderAt(t, "native")
    /\ "LibRawException" \in DecodeErrors
    /\ result' = [result EXCEPT ![t] = NULL]
    /\ Become(t, "unlisten")
    /\ raised' = [raised EXCEPT ![t] = 0]
    /\ UNCHANGED <<reportersVars, loaderVars, registryVars, target,
                   clientVars, freed, ui, alive>>
DecodeFails(t) ==
    /\ LoaderAt(t, "native")
    /\ "LibRawException" \in DecodeErrors
    /\ result' = [result EXCEPT ![t] = Failed]
    /\ Become(t, "unlisten")
    /\ raised' = [raised EXCEPT ![t] = 0]
    /\ UNCHANGED <<reportersVars, loaderVars, registryVars, target,
                   clientVars, freed, ui, alive>>

DecodeThrowsError(t) ==
    /\ LoaderAt(t, "native")
    /\ "NoSuchMethodError" \in DecodeErrors
    /\ Uncaught(t)
    /\ UNCHANGED <<reportersVars, loaderVars, registryVars, target, result,
                   raised, clientVars, freed, ui>>

(* bitmap = ...; return bitmap.  A thread that decodes the same image may  *)
(* assign between the two, and then both return the same bitmap.           *)
Assign(t) ==
    /\ LoaderAt(t, "assign")
    /\ AssignBitmap(target[t], t)
    /\ Become(t, "getBitmap")
    /\ UNCHANGED <<reportersVars, registryVars, target, result, raised,
                   clientVars, freed, ui, alive>>

Unlisten(t) ==
    /\ LoaderAt(t, "unlisten")
    /\ RemoveProgressListener(t)
    /\ Become(t, "setState")
    /\ UNCHANGED <<reportersVars, registryVars, target, result, raised,
                   clientVars, freed, ui, alive>>

(* The final state is put first, the bitmap only after it.                 *)
SetLoadingErrorSilently(t) ==
    /\ LoaderAt(t, "setState")
    /\ result[t] = Failed
    /\ loadingStates' = [loadingStates EXCEPT ![target[t]] = "LoadingError"]
    /\ Become(t, "done")
    /\ UNCHANGED <<reportersVars, loaderVars, registry, loadedBitmaps, target,
                   result, raised, clientVars, freed, ui, alive>>
ReportErrorOnly(t) ==
    /\ LoaderAt(t, "setState")
    /\ result[t] = Failed
    /\ Become(t, "report")
    /\ UNCHANGED <<reportersVars, loaderVars, registryVars, target, result,
                   raised, clientVars, freed, ui, alive>>
SetLoadingError(t) ==
    /\ LoaderAt(t, "setState")
    /\ result[t] = Failed
    /\ loadingStates' = [loadingStates EXCEPT ![target[t]] = "LoadingError"]
    /\ Become(t, "report")
    /\ UNCHANGED <<reportersVars, loaderVars, registry, loadedBitmaps, target,
                   result, raised, clientVars, freed, ui, alive>>

SetLoadedAlways(t) ==
    /\ LoaderAt(t, "setState")
    /\ loadingStates' = [loadingStates EXCEPT ![target[t]] = "Loaded"]
    /\ Become(t, "putBitmap")
    /\ UNCHANGED <<reportersVars, loaderVars, registry, loadedBitmaps, target,
                   result, raised, clientVars, freed, ui, alive>>
SetLoaded(t) ==
    /\ LoaderAt(t, "setState")
    /\ result[t] # Failed
    /\ loadingStates' = [loadingStates EXCEPT ![target[t]] = "Loaded"]
    /\ Become(t, "putBitmap")
    /\ UNCHANGED <<reportersVars, loaderVars, registry, loadedBitmaps, target,
                   result, raised, clientVars, freed, ui, alive>>

PutBitmap(t) ==
    /\ LoaderAt(t, "putBitmap")
    /\ loadedBitmaps' = [loadedBitmaps EXCEPT ![target[t]] = result[t]]
    /\ Become(t, "report")
    /\ UNCHANGED <<reportersVars, loaderVars, registry, loadingStates, target,
                   result, raised, clientVars, freed, ui, alive>>

(* callReportSuccessForImage or callReportExceptionForImage.               *)
ReportOutcome(t) ==
    /\ LoaderAt(t, "report")
    /\ \/ /\ CallReportEnter(t, target[t])
          /\ UNCHANGED <<pc, received, posted>>
       \/ \E c \in Clients :
            /\ CallReportNext(t, c)
            /\ received' = [received EXCEPT ![c] = @ \union {result[t]}]
            /\ ReporterRuns(c, "dismiss")
            /\ UNCHANGED pc
       \/ /\ CallReportLeave(t)
          /\ Become(t, "done")
          /\ UNCHANGED <<received, posted>>
    /\ UNCHANGED <<loaderVars, registryVars, target, result, raised, phase,
                   image, dialog, freed, ui, alive>>

LoaderStep(t) ==
    \/ ReportZero(t)
    \/ Begin(t)
    \/ GetBitmap(t)
    \/ NativeRaises(t)
    \/ \E l \in Loaders : CallListener(t, l)
    \/ RunListener(t)
    \/ EndRaise(t)
    \/ RaiseThrows(t)
    \/ Decoded(t)
    \/ DecodeFails(t)
    \/ DecodeThrowsError(t)
    \/ Assign(t)
    \/ Unlisten(t)
    \/ SetLoadingError(t)
    \/ SetLoaded(t)
    \/ PutBitmap(t)
    \/ ReportOutcome(t)

(* What the UI thread does without the user: it finishes loadImage and     *)
(* forgetImage once it is in them, and runs what was posted.               *)
UiContinues(c) ==
    \/ \E t \in Loaders : LoadImageStarts(c, t) \/ StartThread(c, t)
    \/ LoadImageSkips(c)
    \/ TestInProgress(c)
    \/ Join(c)
    \/ TestLoaded(c)
    \/ Return(c)
    \/ FreeForgotten(c)
    \/ RunPosted(c)

User(c) == RequestOrLoadImage(c) \/ Back(c) \/ Destroy(c)

(* Nothing is left to do, or the process has ended.                        *)
Quiet ==
    \/ ~ alive
    \/ /\ ui = Idle
       /\ \A t \in Loaders : pc[t] \in {"unborn", "done", "killed"}
       /\ \A c \in Clients : posted[c] = <<>>

Next ==
    \/ \E t \in Loaders : LoaderStep(t)
    \/ \E c \in Clients : UiContinues(c) \/ User(c)
    \/ Quiet /\ UNCHANGED vars

(* While a started thread or the UI thread can go on, one of them does;    *)
(* nobody makes the user do anything.  No thread steps for ever, so that   *)
(* none is left behind for good.                                           *)
ProgramStep ==
    \/ \E t \in Loaders : LoaderStep(t)
    \/ \E c \in Clients : UiContinues(c)

Fairness == WF_vars(ProgramStep)

Spec == Init /\ [][Next]_vars
FairSpec == Spec /\ Fairness

-----------------------------------------------------------------------------
(* Properties.                                                             *)

(* A reporter that unregisterImageLoaderReporter removed is never called   *)
(* again, neither with an outcome nor to post a progress, although a       *)
(* loader may be in the middle of calling reporters and have this one      *)
(* ahead: the monitor keeps removal and calls apart.                       *)
NoCallbackAfterUnregister ==
    [][\A c \in Clients :
          phase[c] = "gone" => /\ received'[c] = received[c]
                               /\ Len(posted'[c]) <= Len(posted[c])]_vars

(* A reporter gets only bitmaps that were decoded from the file of its own *)
(* image, whatever loads run beside it and whatever was forgotten.         *)
SuccessIsOwnImage ==
    \A c \in Clients : \A b \in received[c] \cap Loaders :
        imageFileNames[target[b]] = imageFileNames[image[c]]

Registered(i) == \E f \in Files : registry[f] = i

(* As long as an image is registered, the native memory of the bitmap kept *)
(* for it, and of the bitmaps its clients were given, is not freed.        *)
RegisteredBitmapsAreLive ==
    /\ \A i \in Images : Registered(i) => loadedBitmaps[i] \notin freed
    /\ \A c \in Clients :
          Registered(image[c]) => received[c] \cap freed = {}

(* The listeners in the list are those of the loads under way and of the   *)
(* loads that an uncaught error has killed: no load that ended, well or    *)
(* with an exception, leaves one behind that later decodings would call.   *)
Loading(t) ==
    pc[t] \in {"created", "zero", "begin", "getBitmap", "native", "raise",
               "listener", "assign", "unlisten"}
Killed(t) == pc[t] = "killed"
ListenersAreActiveLoads ==
    progressListeners = {t \in Loaders : Loading(t) \/ Killed(t)}

(* loadImage, line 170: "If the image is loaded, its bitmap should be in   *)
(* the registry. So we retrieve it from there": no reporter is given null. *)
NoNullSuccess == \A c \in Clients : NULL \notin received[c]

(* ... what is true instead: a reporter is given null only between the two *)
(* puts of a load of its image, never because the image was forgotten or   *)
(* because one of two loads of it failed.                                  *)
NullOnlyBetweenPuts ==
    [][\A c \in Clients :
          NULL \in received'[c] \ received[c] =>
              \E t \in Loaders : target[t] = image[c] /\ pc[t] = "putBitmap"]_vars

(* loadImage, line 163: "after the image has loaded by other, already      *)
(* started thread, the result will be sent to the caller", and run(), line *)
(* 139: "Reporting exception to the caller".  Every caller of loadImage    *)
(* that stays is called with a bitmap or an exception.                     *)
Answered(c) == received[c] # {} \/ phase[c] \in {"finishing", "gone"}
EveryRequestAnswered ==
    \A c \in Clients : phase[c] = "loading" ~> (Answered(c) \/ ~ alive)

(* A reporter that is listed while a load of its image has not yet begun   *)
(* to report its outcome is called, unless its activity goes first or an   *)
(* uncaught error kills the load.                                          *)
LoadOf(c, t) == image[c] # NULL /\ target[t] = image[c]
Awaiting(c) ==
    \E t \in Loaders :
        LoadOf(c, t) /\ Loading(t) /\ c \in imageLoaderReporters[target[t]]
ListedReporterIsCalled ==
    \A c \in Clients :
        Awaiting(c) ~> \/ Answered(c) \/ ~ alive
                       \/ \E t \in Loaders : LoadOf(c, t) /\ Killed(t)

(* The progress dialog, which the user cannot cancel, does not stay over   *)
(* an activity: an outcome dismisses it, however loads double and fail and *)
(* images are forgotten.  Two dialogs the code lets stay: that of an       *)
(* activity that loadImage told of a load without adding its reporter, and *)
(* one that the decoder of another image shows again, for raiseProgress    *)
(* may call the listener of a load that has just reported.                 *)
MayStay(c) ==
    \/ c \notin imageLoaderReporters[image[c]]
    \/ \E t \in Loaders : target[t] \notin {NULL, image[c]}
DialogGoes == []<>(\A c \in Clients : dialog[c] => MayStay(c) \/ ~ alive)

(* When no load of a registered image is under way any more, and none was  *)
(* killed, its state is final, and if it says Loaded, the bitmap is there: *)
(* two loads of one image and an exception in one of them leave nothing    *)
(* half done.                                                              *)
Busy(t) == pc[t] \notin {"unborn", "created", "done"}
SettledStates ==
    \A i \in Images :
        Registered(i) /\ (\A t \in Loaders : Busy(t) => target[t] # i) =>
            /\ loadingStates[i] # "LoadingInProgress"
            /\ loadingStates[i] = "Loaded" => loadedBitmaps[i] # NULL

-----------------------------------------------------------------------------
(* The registry implements ImageDelivery: the file of a client or a load   *)
(* is that of its image, a load ends when its thread has its result, a     *)
(* client leaves when its activity is destroyed.                           *)
FileOf(i) == IF i = NULL THEN NULL ELSE imageFileNames[i]

Delivery == INSTANCE ImageDelivery WITH
    Loads   <- Loaders,
    asked   <- [c \in Clients |-> FileOf(image[c])],
    loads   <- [t \in Loaders |-> FileOf(target[t])],
    outcome <- result,
    given   <- received,
    left    <- {c \in Clients : phase[c] = "gone"},
    running <- alive

(* However the threads, the UI thread and the native callbacks interleave, *)
(* what the clients see is a behaviour of ImageDelivery: results and       *)
(* failures of another file, or of a load that has not ended, or after     *)
(* unregisterImageLoaderReporter, are not reported.                        *)
Delivers == Delivery!Spec
=============================================================================
