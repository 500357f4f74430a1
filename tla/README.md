# CatEye: models and proofs

CatEye is a viewer for raw photographs: an Android program and a desktop (SWT)
program over one Java core, with native libraries for decoding and processing.
This directory holds TLA+ models of the parts of it that threads, callbacks and
failures make hard, TLC runs that check them on small instances, and TLAPS
proofs for instances of every size. `src/` below is the root of the repository;
`PROJECT.json` lists runs, hazards and, for every definition, the lines it models.

Run TLC with `tlc -config <run>.cfg <module>`, the provers with `tlapm <module>.tla`.

## 1. The system

| Component | State | Operations | Who calls it |
|---|---|---|---|
| `ImagesRegistry` (core) | `registry` (path to `RawImage`), `loadingStates`, `loadedBitmaps`: three synchronizedMaps | `requestOrLoadImage`, `loadImage`, the loader thread's `run`, `forgetImage`, `unregisterImageLoaderReporter`, `getState` | the UI thread of either program; `run` in a new thread per load |
| `ImageLoaderReporters` (core) | image to list of reporters, guarded by its monitor | `add`, `remove`, `callReport...ForImage` | registry and loader threads |
| `RawImageLoader`, `RawImage` (Java) | file names, an unguarded list of progress listeners, `RawImage.bitmap` | `createImageFromFile`, `add/removeProgressListener`, `raiseProgress`, `getBitmap` | registry, loader threads, and native code calling back |
| Native loader (`RawImageLoader.cpp`) | a LibRaw processor, its result, the Java object it fills | `loadPreciseBitmapFromFile`, `loadDescriptionFromFile`, the progress callback | `getBitmap` |
| LibRaw, as the loader calls it | memory manager, progress flags, sizes, picture | `open_file`/`open_buffer`, `unpack`, `dcraw_process`, `dcraw_make_mem_image`, `unpack_thumb`, `dcraw_make_mem_thumb`, `recycle` | native loader |
| `ImageProcessor` (UI) | `state`, `resultPreciseBitmap`, reporters: plain fields | `startProcessingAsync`, `processImage`, `doProcessing` | window or activity; own thread |
| Compressor (C++) | counted arrays (`arr2`), lattices, 16 solver threads per step | `process` with progress callbacks | `doProcessing` |
| `ImageWindow` (SWT) | `closingPending`, disposed or not, closure thread | `openWithFile`, `shellClosed`, `canCloseNow`, `closeASAP`, `callFromUi`, reporters | user, loader, processing and closure threads |
| `ImageActivity` (Android) | dialog, image, processor | `onCreate`, `onBackPressed`, `onDestroy`, reporters | system, loader and processing threads |
| `PreciseBitmapView` + cache (SWT, Android) | rough and fine picture, `activeImageIndex`, polishing thread | set bitmap, resize, drag, zoom, paint, `polish` | UI thread, polishing thread |
| Coordinate transformers (core) | screen size, image size, pan, zoom | setters, `addPan`, `zoomBy`, `zoomUponScreenPoint`, `applyConstraints` | views |
| `bitmaps`, bitmap classes | native addresses | alloc, copy, free, finalize, get pixels | everything above |
| Other procedures, `colorlib` | none | per-pixel loops | nothing in the two programs |
| Widgets, launcher, make files, vendored LibRaw, libjpeg, SWT, JVM headers | | | |

How they interact. The front end calls `loadImage`; the registry starts a loader
thread; the decoder raises progress to **all** listeners of the shared
`RawImageLoader`; each listener calls the reporters of its own image; at the end
the loader puts the state, then the bitmap, then calls the reporters. A success
makes the front end show the bitmap and start the processor, which copies the
bitmap and compresses the copy in another thread, asking its reporter at each
progress report whether to go on. On Android reporters post to the UI thread and
return (`runOnUiThread`), so that what they do to the dialog is done later; on the
desktop they wait for it (`syncExec`). Closing the desktop window is refused
while something is loaded or processed, and a closure thread tries again.

What is hard: state tested under one lock and changed under none
(`loadImage`/`run`, `startProcessingAsync`/`doProcessing`), a list iterated by
one thread and changed by others, the order state-bitmap-report at the end of a
load, reporters that come or go during the report, runnables that run after their
activity is gone, errors that no handler catches, native memory freed while
others hold the bitmap, memory that stages of the decoder replace and exceptions
unwind, one array written by many threads, an activity rebuilt in the middle of a load, closing a
window that threads wait for, exceptions that leave a state machine half way,
and a view drawn by two threads. `hazards` in `PROJECT.json` has each at its line.

What makes each component correct:

- registry: a request is answered; a reporter gets its own image, and a bitmap of
  it; a registered bitmap is not freed; states settle; an unregistered reporter
  stays silent; a dialog that cannot be cancelled goes when its load has ended;
- processor: results belong to their call; native code works on live memory; a
  refusal ends the work; afterwards the processor is idle;
- native loader: nothing is freed twice or lost; a bitmap or an exception; a
  cancelled load gives no bitmap; every stage has a picture of the size it takes;
- compressor: every column of every step computed, once, from a finished
  neighbour; arrays live as long as threads use them; a refusal leaves the bitmap;
- window: closes in the end; does not start two closure threads; work that
  outlives it stops;
- view: one polishing thread; what stays on the screen is what is wanted; a view
  left alone is polished; the join does not block for ever;
- transformer: the two rules of its class comment; the point under the finger
  stays; a drag goes as far as allowed.

## 2. The modules

| Module | Models | Uses |
|---|---|---|
| `CatEyeObjects` | names of files, images, clients, loader threads | |
| `ImageLoaderReporters` | the reporters' lists and their monitor | `CatEyeObjects` |
| `RawImageLoader` | progress listeners, `raiseProgress`, `RawImage.bitmap` | `CatEyeObjects` |
| `ImagesRegistry` | the registry, its loader threads, the decoder's callbacks, and the clients of either front end | the three above |
| `ImageProcessor` | `ImageProcessor` and the compressor's protocol with its listener | |
| `ImageWindow` | the desktop window, composed with the processor and one load | `ImageProcessor` |
| `PreciseBitmapView` | the desktop view with its caches and polishing thread | |
| `ImageCoordinatesTransformer` | the geometry of a screen and an image | |
| `RestrictedImageCoordinatesTransformer` | the transformer that the views use | the one above |
| `ImageDelivery` | abstract: what the registry promises its clients | |
| `NativeHeap` | the C heap and LibRaw's memory manager | |
| `LibRaw` | the stages of a LibRaw processor | `NativeHeap` |
| `NativeRawImageLoader` | the two native methods of `RawImageLoader` | `LibRaw` |
| `Arr2` | the counted arrays of the compressor | |
| `Compressor` | the compressor, its lattices and its solver's threads | `Arr2` |
| `ImagesRegistryProofs`, `ImagesRegistryDelivers` | proofs, the second on the first | `ImagesRegistry` |
| `ImageProcessorProofs`, `ImageWindowProofs`, `PreciseBitmapViewProofs`, `RestrictedTransformerProofs`, `CompressorProofs`, `NativeRawImageLoaderProofs` | proofs | their modules |
| `MC...` | instances for TLC | |

### ImagesRegistry

A variable per field, under the field's name. A loader thread's `pc` walks
through `run()`: `ReportZero`, `Begin` (the put of LoadingInProgress),
`GetBitmap`, `NativeRaises` and the listener loop, `Decoded`, `DecodeFails` or
`DecodeThrowsError`, `Assign`, `Unlisten`, `SetLoadingError` or `SetLoaded`, `PutBitmap`,
`ReportOutcome`. Each read or write of a synchronizedMap is one step. `loadImage`
is split the same way, because its lock is not the loaders': `LoadImageStarts`,
`StartThread`, `LoadImageSkips`, `TestInProgress`, `Join`, `TestLoaded`,
`Return`. The monitor of `ImageLoaderReporters` is a variable, since a loader
keeps it during the whole loop over reporters. `raiseProgress` iterates over a
plain `ArrayList`: an iteration that a change overtook may go on, end early or
throw, and the exception crosses native frames and `run()`. What `run()` does not
catch (`Uncaught`) ends the process on Android (`alive`); on the desktop it ends
the thread, which is then "killed" with its listener in the list and its state as
it was. `DecodeErrors` says what a failed decoding throws: `NoSuchMethodError`,
which is uncaught, is what the native code throws (`ThrowInJava` in
`NativeRawImageLoader`);
`LibRawException`, which `run()` is written for, is what it means to throw.
Safety is checked and proved for both, and so for the code as it is and as it
would be once the native lookup is mended. A listener and a bitmap are named by
the thread they belong to.

`FrontEnd` says who the clients are. "android": activities that open a file,
are destroyed (rotation), or finish and forget the image. The step in which a
loader calls an activity's reporter only appends to the activity's queue
`posted`; `RunPosted` is the UI thread that takes the first of it, in a step of
its own, also after `Destroy`: it shows the dialog (`ShowProgress`) or dismisses
it (`DismissProgress`), or is refused a window for a dead activity, which ends
the process (`ShowIsRefused`). "swt": the one window, which does none of that and
whose reporters wait for the UI thread (`ReporterRuns`). The UI thread is a single thread: a client's calls run to their end
before the next client's begin.

`ImageDelivery` says the same without threads, maps, locks and listeners: a
client asks for a file, a load is started for a client that asked, ends once with
a bitmap of its file or an exception, and a client is given only what a load of
its file ended with and nothing after it left. `Delivery` in `ImagesRegistry` is
the refinement mapping: the file of a client or a load is that of its image, a
load has ended when its thread has its `result`, a client has left when its
activity is gone. `Give` allows a null where a load has decoded a bitmap, for the
code publishes `Loaded` before the bitmap (section 4). `NullOnlyBetweenPuts` says
when exactly it may come.

### NativeRawImageLoader and LibRaw

One load by one thread, from the first allocation to the return to Java, the
crash or the exit. `heap` says which blocks live and which pointer has which;
LibRaw's table of blocks (`mems`, at most `MSIZE`) is part of it, so that
`Recycle`, which runs after an error, at the end of decoding and in the
destructor, frees what fields hold and then what the table still remembers. A
stage (`Stage`) may ask the callback, be refused, or find no memory; `Throw` is
the `EXCEPTION_HANDLER` of the calls. `file` is what a file may be like: its
decoder with the blocks that holds, its colours, whether it has a matrix, is
rotated (Fuji), oblong, turned, cut off, has a profile or bad zeroes, and which
thumbnail. `raw` has the processor's flags and sizes: `Shrinks`, `InnerSize`,
`Resized`, `Separated` and their like follow the picture through half size,
interpolation, rotation and stretching. `LoadPrecise`, `LoadDescription`,
`DecodePrecise`, `DecodeThumb` and `End` are the native methods; `build` chooses
`open_file` or the Windows build's `_wfopen` and `open_buffer`. `Answer` is the
callback, in which Java may say "cancel" or throw.

### Compressor and Arr2

`Luminosity` to `Divergence` are `Compress` up to the right side; `Lattices`,
`Solve`, `Judge`, `Refine`, `Finest` are the two solvers; `Create` and `Join`
start and join the threads, and `Forward`, `Backward`, `NextColumn`, `End` are a
thread's run over its columns. A column of `Inew` is as in the last step, half
written, or new; a thread records (`saw`) what the column before was while it
read it. `FirstOf` and `EndOf` are the ranges. Numbers decide nothing but how
near a step came (`Outcomes`, NaN included). A C++ variable of type `arr2` is a
handle; copies share a block and count its holders, and every scope that ends is
a `Destroy`. Progress is in thousandths.

### ImageProcessor

A call, its thread, its reporter and the copy it makes share a name. `state` is
tested by `StartProcessingAsync`/`ProcessImage`/`Refuse` and set by `SetWorking`
in the new thread; `FreePrevious`, `Copy` and `CallProcess` each read or write
the field `resultPreciseBitmap`; the reporter loops may be overtaken by
`reporters.clear()` of a second call. An exception (`CopyThrows`, `LoopThrows`)
leaves `state` as it is. The native code reports any number of times, and
`AfterReport` says what it does with the answer.

### ImageWindow

`Post`, `Dispatch` and the `call` variable are `callFromUi` and `syncExec`;
`TryToClose`, `TestProcessor`, `TestRegistry`, `CannotClose`, `Dispose` are
`shellClosed` and `canCloseNow`; `CloserLoops`, `CloserReturns`, `CloserWakes`
are `closeASAP`. `ShowError` opens a message box, whose own loop dispatches on,
and closes the window when it is left. A load ends with a bitmap, with an exception
that `run()` reports, or (`LoadingThrowsError`) with an error that it does not, which
leaves the registry LoadingInProgress; `DecodeErrors` is as in the registry. The
processing is `ImageProcessor` with
the single call `Request`.

### PreciseBitmapView

What is to be seen (bitmap, pan, zoom, size) is the number of the event that led
to it; a picture is the number of the view it shows. `frontEnd`, chosen in `Init`,
says whose view it is. `Changes` is what all SWT handlers do, and Android's
`setPreciseBitmap` and `onTouchEvent` (`Touch`) too; `OnSizeChanged` replaces the
pictures but draws and activates nothing. `AskForPaint` is `redraw(); update()`,
which paints at once, or `invalidate()`, which paints later, other events
between. SWT polishes into the picture that may be shown, Android into an array
that `setPixels` copies at the end (`BeginUpdate`). `Painted`, `Interrupt`, `Join`, `StartDrawer` are the second read of
`activeImageIndex` and `polish()`; `AskOrigin` to `RequestRedraw` are the runnable.

### Transformers

Exact arithmetic in half units: sizes are given by their halves, so that the
centre is an integer. Division appears in `zoomUponScreenPoint` only, whose
action is enabled where it is exact (`Exact`). Rounding, NaN and infinite zooms
are left out.

## 3. The runs

| Run | Instance | Shows |
|---|---|---|
| `RegistryAndroid` | 2 files, 2 images, 2 clients, 2 loads, 1 progress report per decode, both errors | `TypeOK`, `RegisteredBitmapsAreLive`, `ListenersAreActiveLoads`, `SettledStates`, `NoCallbackAfterUnregister`, `NullOnlyBetweenPuts` hold through interleaved, doubled, failing and forgotten loads, and all of it implements `ImageDelivery` (`Delivers`) |
| `RegistryRotation` | 1 file, 1 image, 2 clients, 2 loads, the report of 0% only | liveness: the dialog goes (`DialogGoes`), a listed reporter is called (`ListedReporterIsCalled`) |
| `RegistryJoiner` | 1 file, 2 clients, 2 loads | violates `EveryRequestAnswered` |
| `RegistryNull` | 1 file, 2 clients, 1 load | violates `NoNullSuccess` |
| `ProcessorCalls` | 3 calls | `ResultIsOwnCopy`, `WorkIsLive` (without overlap), `SettledWhenOver` (with it) |
| `WindowCloses` | the one window, both errors | `ClosesAtLast`, `OneClosureThread`, `WorkEndsAfterClose` |
| `WindowHangs` | same | violates `CallReturns` |
| `WindowStuck` | same, uncaught errors | violates `ClosesAfterFailedLoad` |
| `ViewPolishes` | both front ends, 4 events, 2 thread names | `OneDrawer`, `FreshAtRest`, `PolishedAtLast`, `JoinReturns` |
| `TransformerRules` | half sizes 0 to 2, zooms 1, 2, 4 | `ViewInsideImage`, `PointStaysInPlace`, `DragGoesToNearest` |
| `NativeLoads` | a file of every decoder and sensor, sound or broken, each with one peculiarity; both methods, both builds | `TypeOK`; memory: `FreedOnce`, `NothingLeaks`, `ImageHoldsPicture`; outcome: `FailureIsReported`, `CancelIsFinal`, `PictureIsWhole`, `LoadReturns`; `ProgressNeverGoesBack` |
| `Compresses` | pictures 1x3, 3x2, 4x4, 7x6; 3 threads, at most 4 steps, a report per 2 columns | `EachColumnComputed`, `NoColumnTwice`, `ColumnsAreFresh`, `ArraysAreSafe`, `SolutionFitsLattice`, `CancelLeavesBitmap`, `CompressReturns` |

Why the bounds are enough. Two loads, two clients and two files are what it
takes for each race between two loads or two callers: two loads of one image, a
listener list changed under an iteration, a joiner, a forgetting activity beside
a loading one. What `RegistryAndroid` checks is proved for all numbers (section
5), so its bounds lose nothing. One progress report per decode suffices for a
stale iteration; the number is `MaxProgress`. The liveness run has no report but
the 0% one, which already shows the dialog: with one more per decode the graph
that TLC has to search is beyond the time of a run. It takes `LibRawException` only,
for on Android an uncaught error ends the process, which both properties except.
No run has the desktop's front end of the registry: it has one request only and is
checked in `WindowCloses` and `WindowStuck`, and the theorems hold for it. A
processor with three calls has one overlap and a call after it. The window has no
bound: there is one, its reports are unbounded, and the state space is finite. Four events let the view get a bitmap and a size and
change twice, before, during and after a polishing; two thread names are enough
because a name is used again when its thread ended. A native load has no
unbounded loop but AHD's rows of tiles (`MaxTiles` 2; in LibRaw one for every
250 rows of the picture) and LibRaw's own memory table of 32 entries; one
peculiarity per file, because each adds a stage or a
size of its own and combinations repeat stages that are already there. The
compressor's 16 threads, 10000 steps and 100 columns per report are 3, 4 and 2:
widths 1 and 3 leave threads without a column, 4 and 7 leave a rest to the last,
and 7x6 has three lattices; steps from the third on are alike. 25
blocks are at least one for each variable of type `arr2`, so that an allocation always
finds one. `CompressorProofs` does columns and arrays for all numbers. Files, images, clients,
loaders and calls are symmetric where only invariants or action properties are
checked; the liveness runs use no symmetry.

Fairness. Registry: as long as a loader thread, or the UI thread inside `loadImage`
or `forgetImage` or with something posted, can go on, one of them does (weak
fairness of `ProgramStep`, their disjunction). No thread can step for ever, so
none is left behind for good; the user does nothing by obligation. Window:
threads and the UI thread go on; a posted runnable is served although others keep
the UI busy, because the event queue is first in, first out (strong fairness of
the dispatches); a decode ends, well or not, and a message box is left (strong,
since progress reports interrupt them); the compression need **not** end by itself. View: both threads go on. Native load:
its one thread goes on, and the listener returns. Compressor: the calling thread
and each solver thread go on. Nothing is assumed about the user.

Deadlock is checked in every run; the disjuncts `Quiet`, `Ended`, `AllDone` name
the states where the program may really stop.

## 4. What the runs found

Each is a violating run and a finding in `PROJECT.json`.

- `WindowStuck`: the native code looks the static factory of `LibRawException` up
  with `GetMethodID`, so every error of LibRaw reaches Java as a
  `NoSuchMethodError`, which `ImagesRegistry.run` does not catch. On Android the
  process ends; on the desktop the loader thread ends with the state
  LoadingInProgress and its listener in the list, and the caller is told nothing.
  From then on the registry is busy, `canCloseNow` answers false, and the closure
  thread of a user who closes the window tries for ever.
- `RegistryJoiner`: `loadImage` sees `LoadingInProgress`, the loader then sets
  `Loaded` and calls all reporters, and only then is the new reporter listed: it
  is never called.
- `RegistryNull`: `run()` publishes `Loaded` before it puts the bitmap; a `loadImage`
  in between hands its reporter `null`.
- `WindowHangs`: a thread that tested `isDisposed` just before the window went
  waits in `syncExec` for a loop that has ended.

Seen while modelling and true of the code, but without a run of their own:

- a progress posted before `onDestroy` runs after it (`RunPosted`) and shows the
  dialog of the destroyed activity, though `ImageActivity.java:236` says "Closing
  the loading progress dialog";
- the decoder of one file may take the listener of another load from the list just
  before that load ends, and call it after that has reported success: the late
  progress shows the dialog again, and nothing is pending that would dismiss it
  (two files, two loads, one report);
- with two loads of one image, a third activity may be handed the bitmap of the
  first just before the second begins. `loadImage` then returns LoadingInProgress,
  and the activity shows its dialog without being listed for the load that would
  dismiss it (three activities, two loads);
- the solver drops the answer to its last report
  (`CompressorStageOperationProcessor.cpp:772`), so a call cancelled there still
  reports a result, although `ImageProcessor.java:42` says that false means
  "cancel"; `CancelLeavesBitmap` excepts it;

- two calls of `loadImage` before the first thread runs start two loads of one
  image (`ImagesRegistry.java:111` against the comment at line 66); the runs on
  Android include this case. Likewise two calls of `startProcessingAsync`
  (`ImageProcessor.java:104`), included in `ProcessorCalls`;
- a polishing thread can make its picture of an old view active just after the
  UI thread activated the new rough one, and the old picture stays. `FreshAtRest`
  holds except after this (history variable `late`); without the exception TLC
  shows it in `ViewPolishes` within 21 steps;
- an Android view that gets a new size while its fine picture is active shows a
  blank one until it is touched, for `onSizeChanged` draws nothing
  (`PreciseBitmapView.java:171`); `late` records this case too;
- `ImageCoordinatesTransformer.setPan` says that pan (0, 0) puts the image's left
  top corner to the screen's; the code centres the image;
- `ImageActivity.closingPending` is never set: the Android program never cancels
  a processing;
- when `copy()` throws, the processor stays `Working`, and the window refuses to
  close for good (`ImageProcessor.java:34`); `ClosesAtLast` excepts it;
- native loader: Canon's sRAW decoder, when it fails, has its block freed as
  `image` and as `raw_alloc` (`FreedOnce` excepts it); a decoder that meets
  broken data loses its byte buffer (`NothingLeaks`); the Windows build leaves
  the result unset for a file it cannot open (`FailureIsReported`); the results
  of `Init` and of the allocation of the raw data are not looked at; libjpeg's
  error handler ends the process; three values a pixel are read where a
  monochrome sensor has one (`PictureIsWhole` excepts it); neither program calls
  `getDescription` or `setDivideBy2`;
- compressor: the first column of a thread's range reads its neighbour's last
  while that may be half written, so that a result depends on the schedule
  (`ColumnsAreFresh` speaks of the other columns); a picture without gradients
  makes `dpd` NaN, so that all 10000 steps are taken at progress .999;
  `rho_new` and the coarsest first solution are read without having been
  initialised (lines 723, 734), and so is the border of the gradients
  (806 to 835); after a cancellation the list of thread handles leaks;
- forgetting an image without a bitmap, or twice, throws after half of the work
  (`ImagesRegistry.java:189`); in the model that ends the process (`alive`).

Limits of properties worth knowing. `ResultIsOwnCopy` and `WorkIsLive` say
nothing once two calls overlapped (`overlapped`): then the code does mix
results. `ClosesAtLast` excepts a processing that an exception ended and a load
that an error ended. Liveness of the registry excepts a process that ended;
`ListedReporterIsCalled` and `SettledStates` except the image of a killed load, and
`DialogGoes` the second and third dialog of the list above.
`PolishedAtLast` says that the fine picture is the active one in the end, which on
Android may be the blank one of a changed size.

## 5. Proofs

`ImagesRegistryProofs`, for all sets of files, images, clients and loader
threads, any `MaxProgress`, both front ends and both errors, from the assumptions of
`CatEyeObjects` (the null value is none of the objects) and `ImagesRegistry`:

- `TypeCorrect`: `Spec => []TypeOK`. Not only typing: it says that a failed load
  never leaves anything in `loadedBitmaps`.
- `FreedIsForgotten`: `Spec => []RegisteredBitmapsAreLive`.
- `OwnImageOnly`: `Spec => []SuccessIsOwnImage`.
- `SilentAfterUnregister`: `Spec => NoCallbackAfterUnregister`. It is about the calls
  of a reporter; what one posted before is still run.

None of these is inductive. The inductive invariant `IInv` answers, for every
object, whose it is: `ClientsInv` and `ThreadsInv` tie program positions to the
fields that must be set there; `NamesInv` gives each used image one file, under
which alone it is registered; `OwnersInv` says that every place that holds a
bitmap (field, map, result, a client) belongs to the image the bitmap was
decoded for, so that freeing one image's bitmap cannot take another's;
`ReportersInv` says that a listed, or still to be notified, reporter belongs to
a living client of that image and that only a thread in a report has the
monitor; `FreedInv` says that freed bitmaps belong to images that left the
registry. Each step has a lemma (`BeginInv`, `AssignInv`, ...), `StepInv` puts them
together, `Invariance` is the temporal step.

`ImagesRegistryDelivers` adds the refinement: `RegistryDelivers` is
`Spec => Delivers`, with `DInv` on top of `IInv`. `ResultsInv` (a thread has a
result exactly when it is past decoding) makes a thread's `result` an end that is
not taken back; `MapInv` and `LoadedInv` say that a bitmap in the map, and the
state `Loaded`, come from a load of that image; `AskedInv` that a client that did
not ask has no image. With them every step maps to one of `ImageDelivery` or
leaves its variables alone (`LoaderDelivers`, `UiDelivers`).

The same module has `NoListenerLeft` and `StatesSettle`, the invariants
`ListenersAreActiveLoads` and `SettledStates`. The latter needs to know who will
finish a state that is not final: `ProgressInv` names a thread between `Begin` and
its final state, or a killed one, for each LoadingInProgress, `PutInv` a thread
about to put the bitmap for each registered image that is Loaded without one;
`FreedInv` keeps `forgetImage` from taking it out again. From the same invariants
follows `NullOnlyBeforePut`, the action property `NullOnlyBetweenPuts`: the image that
`loadImage` reads is registered (`AskedRegisteredInv`), so that a missing bitmap has
a thread between its two puts.

`ImageProcessorProofs`, for any set of calls: `TypeCorrect`,
`OwnCopyReported`, `WorkLives`, `Settles`. `WorkingInv` holds however calls overlap; `ResultInv` and `MadeInv` say when the field names a freed copy and
that copies are kept or freed only after they were made. What holds without
overlap is `AloneInv`: one call at a time (`OneCall`), none after one that died
(`OwnState`), and the reporters, copy, work and result of a call are its own.

`ImageWindowProofs`: `TypeCorrect` and, from `closer # "none" => closingPending`,
`ClosureThreadIsOne`.

`PreciseBitmapViewProofs`, for any number of events, any set of thread names and
both front ends: `TypeCorrect`, `NeverTwoDrawers`, `RestsFresh`. `DrawersInv` says
that only the thread started last is alive, and is interrupted only while it is
joined; `NumbersInv` that what was wanted before is not wanted again; `DrawingInv`
that a thread that draws what is still wanted draws it into the current picture.
`ActiveInv`, `PaintedInv` and `RoughInv` then say who will act as long as the screen
does not show what is wanted; at rest nobody is left to, so it does.

`CompressorProofs`, for all sizes of pictures and numbers of threads:
`ArraysStayCounted` (a block's counter is the number of variables that hold it,
through every operation of `arr2`), `RangesPartition` (the threads' ranges have
each column from 1 to w once), and from these the inductive `IInv` with
`EveryColumn`, `FreshColumns` and `ColumnOnce`. `PhaseInv` says which threads exist
while they are created and joined, `RangeInv` that a thread is inside its range,
`ColumnInv` what each column of `Inew` is, given how far its thread is.

The arrays have an invariant of their own on top, `HeapInvariant`
(`HeapInvariance`), with `ArraysSafe`, `SolutionFits` and `CancelLeaves`. `HeldInv`
says for every place of the calling thread which variables are in scope, those of
its solver and of its threads too, that just these hold a block, and that the
blocks' counters are right; `SizeInv` which sizes the arrays have that a lattice
starts from; `AnswerInv` what the call has answered and whether the bitmap was
touched. `ArraysAreSafe` alone is not inductive: that no
block is left at the end follows only from knowing all along who has which.
`BlocksAssumption` says that there are as many blocks as variables, for the code
has no limit of its own: with fewer the model would stop where the code does not.

`NativeRawImageLoaderProofs`, for every set of possible files, both builds and
methods, any answer of the listener and any allocation that fails: `TypeCorrect`,
`FreesOnce`, `LeaksNothing`, `ReportsFailure`, `RefusalIsFinal`, `ProgressGoesOn`,
`PictureHasMemory`, `WholePictures`, so all invariants and the action property of
`NativeLoads`. `Invariance` is inductive in three parts.

- `ControlInv`: which call is made from where (`PhaseInv`), what answers, refusal,
  bitmap and exception say of each other (`ResultInv`; AHD, which goes on asking
  after a refusal, is the one place where a refusal is not an answer yet), and the
  highest number reported before each stage (`ToldInv`).
- `HeapInv`: `Accounted`, in `BlocksInv`, says that each living block is either in the
  memory manager's table or held by exactly one owner, and that no pointer
  dangles; with it each of `New`, `Malloc`, `Free`, `Cleanup` and `Recycle` has a
  lemma, which the stages share. What an exception or a lost local drops stays in
  the table and is freed by the next `Recycle`. `Aliased` is the sRAW decoder's
  `image` inside `raw_alloc`. `PointersInv` says which pointers are null where, `TableInv`
  how many blocks the table has at most at each stage: without it a `malloc` might
  find the table full, and its block would be in nobody's books.
- `PictureInv`: how sizes, colours and the picture's block follow from the file:
  as found (`FoundInv`), after the reduction (`ReducedInv`), after
  `pre_interpolate` (`WholeInv`), rotated and converted (`ReadyInv`), handed over
  (`MadeInv`). `ImageHoldsPicture` is not inductive without them: that `pre_interpolate`
  enlarges the right block rests on how `open_datastream` shrank it.

Its assumptions: the names of pointers are finitely many and include the
program's; the table has room for twelve blocks (the code's `LIBRAW_MSIZE` is 32;
`TableInv` and `MemImage` need twelve at most); and files are `PossibleFiles`: sizes
are positive, colours one, three or four (`identify` can find two in a linear DNG
of two samples, which is left out), the decoder is one of the eight, a rotated sensor has `fuji_width`
less than its height, and one side of a pixel's aspect is 1.

`RestrictedTransformerProofs`, for all sets of natural sizes, positive zooms and
integer points: `TypeCorrect`, `ViewStaysInside`, `DragIsNearest`,
`PointStays`. All rest on lemmas about `Constrained`: `ConstrainedIsAllowed` gives the first
two; the others add `ConstrainedIsNearest`, `MovedMeansAtEdge` and, for the zoom,
`ZoomFormulaKeepsPoint`.

Only model-checked: all liveness (`DialogGoes`, `ListedReporterIsCalled`,
`ClosesAtLast`, `WorkEndsAfterClose`, `PolishedAtLast`, `JoinReturns`,
`LoadReturns`, `CompressReturns`), since the prover has neither fairness nor
ENABLED; and the violations of section 4. All invariants and action properties
that a run checks are proved.
`ImageWindow`, `ImageProcessor` and `PreciseBitmapView` have their types proved and
not in a run; the compressor's are `StateInv` of its proofs.

## 6. Not modelled

- Pixel arithmetic: the procedures without a caller, `colorlib`, the compressor's
  formulas, LibRaw's interpolation. Floating point without control flow; what
  decides control (a step that is near, a refused answer) is modelled.
- Most of the vendored C code: libjpeg, LibRaw's tables of cameras and its further
  decoders, SWT, the embedded JVM. They make up nearly all of the lines of the
  repository; of LibRaw, what the loader calls is modelled, with eight decoders
  that stand for the ways a decoder holds memory and fails.
- The `bitmaps` library: allocation, copy, free and `finalize` of one object, called
  one at a time. The other modules name bitmaps and note which are freed. That
  `PreviewBitmap`'s free does not reset its pointers has no caller that frees twice.
- Three meetings of components: a view that draws a bitmap while `forgetImage`
  or the processor frees it, `setViewSize` between the size and the array while
  native code draws, and the Android activity's processing. The first needs view,
  registry and processor in one state space, beyond the bounds of a run; in the
  second a view is a number in this model and has no size; the activity never
  sets `closingPending`, so there is no cancellation to check.
- Fingers' arithmetic, rounding, NaN and infinite zooms in the transformers.
- Widgets, layout, the launcher, build files.

## 7. Order of the work, and what could come next

Built in this order: registry, processor, transformers, window, view; native
loader and compressor; the abstract `ImageDelivery` and its refinement; the
remaining proofs. What would be next:

1. registry and view composed over one bitmap, with the native address read by
   the polishing thread as a step of its own;
2. the activity's processing as a client of `ImageProcessor`, with a destroyed
   activity whose reporter is still called;
3. a native load as the decoding of `ImagesRegistry`, which takes its outcomes from
   `DecodeErrors`.
