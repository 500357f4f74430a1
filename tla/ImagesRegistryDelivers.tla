----------------------- MODULE ImagesRegistryDelivers -----------------------
(***************************************************************************)
(* ImagesRegistry implements ImageDelivery, for any sets of files, images, *)
(* clients and loader threads: a step of the registry is a step of the     *)
(* abstract specification or leaves what the clients see as it is.         *)
(* And no load leaves a listener behind, or a state that is half done,     *)
(* unless an error that run() does not catch has killed its thread.        *)
(***************************************************************************)
EXTENDS ImagesRegistryProofs

Settled == {"unlisten", "setState", "putBitmap", "report", "done"}

(* A thread has a result when it is past the decoding, and no sooner.      *)
ResultsInv == \A t \in Loaders : result[t] # NULL <=> pc[t] \in Settled

(* A bitmap in the map is the result of a thread that loaded the image.    *)
MapInv ==
    \A i \in Images : loadedBitmaps[i] # NULL =>
        \E t \in Loaders : target[t] = i /\ result[t] = loadedBitmaps[i]

(* The state is Loaded only after some thread has decoded the image.       *)
LoadedInv ==
    \A i \in Images : loadingStates[i] = "Loaded" =>
        \E t \in Loaders : target[t] = i /\ result[t] \in Loaders

AskedInv == \A c \in Clients : phase[c] = "new" => image[c] = NULL

DInv == ResultsInv /\ MapInv /\ LoadedInv /\ AskedInv
-----------------------------------------------------------------------------
USE DEF vars, iterationVars, reportersVars, loaderVars, registryVars,
      threadVars, clientVars, LoaderAt, Become, UiAt, AtUi, Idle, GoTo,
      Exists, Registered, MonitorFree

(* The strengthening is inductive.                                         *)

LEMMA InitD == Init => DInv
<1> SUFFICES ASSUME Init PROVE DInv
  OBVIOUS
<1> USE DEF Init
<1>1. ResultsInv
  BY DEF ResultsInv, Settled
<1>2. MapInv /\ AskedInv
  BY DEF MapInv, AskedInv
<1>3. LoadedInv
  BY StateAssumption DEF LoadedInv, LoadingState
<1> QED  BY <1>1, <1>2, <1>3 DEF DInv

(* Begin and the steps in which a thread calls others leave the results.   *)
LEMMA ResultsStep ==
    ASSUME IInv, ResultsInv, NEW t \in Loaders, LoaderStep(t)
    PROVE  /\ ResultsInv'
           /\ \A s \in Loaders : result[s] # NULL => result'[s] = result[s]
<1> USE DEF IInv, TypeOK, ResultsInv, Settled
<1>1. CASE ReportZero(t) \/ RunListener(t)
  BY <1>1 DEF ReportZero, RunListener, ReportProgress
<1>2. CASE Begin(t) \/ Decoded(t)
  BY <1>2 DEF Begin, Decoded
<1>3. CASE NativeRaises(t) \/ EndRaise(t) \/ RaiseThrows(t) \/ DecodeThrowsError(t)
  BY <1>3 DEF NativeRaises, EndRaise, RaiseThrows, DecodeThrowsError, Uncaught
<1>4. CASE \E l \in Loaders : CallListener(t, l)
  BY <1>4 DEF CallListener
<1>5. CASE GetBitmap(t)
  <2>1. pc[t] = "getBitmap" /\ result[t] = NULL
    BY <1>5 DEF GetBitmap
  <2>2. CASE bitmap[target[t]] # NULL
    <3>1. /\ pc' = [pc EXCEPT ![t] = "unlisten"]
          /\ result' = [result EXCEPT ![t] = bitmap[target[t]]]
      BY <1>5, <2>2 DEF GetBitmap
    <3> QED  BY <2>1, <2>2, <3>1
  <2>3. CASE bitmap[target[t]] = NULL
    <3>1. pc' = [pc EXCEPT ![t] = "native"] /\ result' = result
      BY <1>5, <2>3 DEF GetBitmap
    <3> QED  BY <2>1, <3>1
  <2> QED  BY <2>2, <2>3
<1>6. CASE DecodeFails(t)
  BY <1>6, NullAssumption DEF DecodeFails
<1>7. CASE Assign(t) \/ Unlisten(t)
  BY <1>7 DEF Assign, Unlisten
<1>8. CASE SetLoadingError(t) \/ SetLoaded(t) \/ PutBitmap(t)
  BY <1>8 DEF SetLoadingError, SetLoaded, PutBitmap
<1>9. CASE ReportOutcome(t)
  BY <1>9 DEF ReportOutcome
<1> QED  BY <1>1, <1>2, <1>3, <1>4, <1>5, <1>6, <1>7, <1>8, <1>9
         DEF LoaderStep

LEMMA TargetsStep ==
    ASSUME IInv, [Next]_vars
    PROVE  \A s \in Loaders : target[s] # NULL => target'[s] = target[s]
<1> USE DEF IInv, TypeOK
<1>1. CASE UNCHANGED vars
  BY <1>1
<1>2. ASSUME NEW t \in Loaders, LoaderStep(t)
      PROVE  target' = target
  BY <1>2 DEF LoaderStep, ReportZero, RunListener, ReportProgress, Begin,
        GetBitmap, NativeRaises, CallListener, EndRaise, RaiseThrows,
        Decoded, DecodeFails, DecodeThrowsError, Uncaught, Assign, Unlisten,
        SetLoadingError, SetLoaded, PutBitmap, ReportOutcome
<1>3. ASSUME NEW c \in Clients, NEW t \in Loaders, LoadImageStarts(c, t)
      PROVE  \A s \in Loaders : target[s] # NULL => target'[s] = target[s]
  BY <1>3 DEF LoadImageStarts, ThreadsInv
<1>4. ASSUME NEW c \in Clients, UiContinues(c) \/ User(c),
             ~ \E t \in Loaders : LoadImageStarts(c, t)
      PROVE  target' = target
  BY <1>4 DEF UiContinues, User, StartThread, LoadImageSkips, TestInProgress,
        Join, TestLoaded, Return, FreeForgotten, RunPosted,
        RequestOrLoadImage, Back, Destroy
<1> QED  BY <1>1, <1>2, <1>3, <1>4 DEF Next

LEMMA ResultsKept ==
    ASSUME IInv, ResultsInv, [Next]_vars
    PROVE  /\ ResultsInv'
           /\ \A s \in Loaders : result[s] # NULL => result'[s] = result[s]
<1> USE DEF IInv, TypeOK
<1>1. CASE UNCHANGED vars
  BY <1>1 DEF ResultsInv
<1>2. ASSUME NEW t \in Loaders, LoaderStep(t)
      PROVE  /\ ResultsInv'
             /\ \A s \in Loaders : result[s] # NULL => result'[s] = result[s]
  BY <1>2, ResultsStep
<1>3. ASSUME NEW c \in Clients, NEW t \in Loaders,
             LoadImageStarts(c, t) \/ StartThread(c, t)
      PROVE  ResultsInv' /\ result' = result
  BY <1>3 DEF LoadImageStarts, StartThread, ResultsInv, Settled
<1>4. ASSUME NEW c \in Clients, UiContinues(c) \/ User(c),
             ~ \E t \in Loaders : LoadImageStarts(c, t) \/ StartThread(c, t)
      PROVE  ResultsInv' /\ result' = result
  BY <1>4 DEF UiContinues, User, LoadImageSkips, TestInProgress, ResultsInv,
        Join, TestLoaded, Return, FreeForgotten, RunPosted,
        RequestOrLoadImage, Back, Destroy
<1> QED  BY <1>1, <1>2, <1>3, <1>4 DEF Next

(* Only PutBitmap fills the map, and with the result of its own thread.    *)
LEMMA MapStep ==
    ASSUME IInv, [Next]_vars, NEW i \in Images,
           loadedBitmaps'[i] # loadedBitmaps[i]
    PROVE  \/ loadedBitmaps'[i] = NULL
           \/ \E t \in Loaders : target[t] = i /\ loadedBitmaps'[i] = result[t]
<1> USE DEF IInv, TypeOK
<1>1. CASE UNCHANGED vars
  BY <1>1
<1>2. ASSUME NEW t \in Loaders, PutBitmap(t)
      PROVE  target[t] = i /\ loadedBitmaps'[i] = result[t]
  BY <1>2 DEF PutBitmap
<1>3. ASSUME NEW t \in Loaders, LoaderStep(t), ~ PutBitmap(t)
      PROVE  FALSE
  BY <1>3 DEF LoaderStep, ReportZero, RunListener, ReportProgress, Begin,
        GetBitmap, NativeRaises, CallListener, EndRaise, RaiseThrows,
        Decoded, DecodeFails, DecodeThrowsError, Uncaught, Assign, Unlisten,
        SetLoadingError, SetLoaded, ReportOutcome
<1>4. ASSUME NEW c \in Clients, FreeForgotten(c)
      PROVE  loadedBitmaps'[i] = NULL
  BY <1>4 DEF FreeForgotten
<1>5. ASSUME NEW c \in Clients, UiContinues(c) \/ User(c), ~ FreeForgotten(c)
      PROVE  FALSE
  BY <1>5 DEF UiContinues, User, LoadImageStarts, StartThread, Return, Back,
        LoadImageSkips, TestInProgress, Join, TestLoaded, RunPosted,
        RequestOrLoadImage, OpenKnown, OpenNew, Destroy
<1> QED  BY <1>1, <1>2, <1>3, <1>4, <1>5 DEF Next

(* Only SetLoaded makes a state Loaded, in a thread that has a bitmap.     *)
LEMMA LoadedStep ==
    ASSUME IInv, ResultsInv, [Next]_vars, NEW i \in Images,
           loadingStates'[i] = "Loaded", loadingStates[i] # "Loaded"
    PROVE  \E t \in Loaders : target[t] = i /\ result[t] \in Loaders
<1> USE DEF IInv, TypeOK
<1>1. CASE UNCHANGED vars
  BY <1>1
<1>2. ASSUME NEW t \in Loaders, SetLoaded(t)
      PROVE  target[t] = i /\ result[t] \in Loaders
  BY <1>2 DEF SetLoaded, ResultsInv, Settled
<1>3. ASSUME NEW t \in Loaders, LoaderStep(t), ~ SetLoaded(t)
      PROVE  FALSE
  BY <1>3 DEF LoaderStep, ReportZero, RunListener, ReportProgress, Begin,
        GetBitmap, NativeRaises, CallListener, EndRaise, RaiseThrows,
        Decoded, DecodeFails, DecodeThrowsError, Uncaught, Assign, Unlisten,
        SetLoadingError, PutBitmap, ReportOutcome
<1>4. ASSUME NEW c \in Clients, RequestOrLoadImage(c) \/ Back(c)
      PROVE  FALSE
  BY <1>4, StateAssumption DEF RequestOrLoadImage, OpenKnown, OpenNew, Back,
        Forget, LoadingState
<1>5. ASSUME NEW c \in Clients, UiContinues(c) \/ Destroy(c)
      PROVE  FALSE
  BY <1>5 DEF UiContinues, LoadImageStarts, StartThread, LoadImageSkips,
        TestInProgress, Join, TestLoaded, Return, FreeForgotten, RunPosted,
        Destroy
<1> QED  BY <1>1, <1>2, <1>3, <1>4, <1>5 DEF Next, User

LEMMA AskedStep ==
    ASSUME IInv, AskedInv, [Next]_vars
    PROVE  AskedInv' /\ \A c \in Clients : phase[c] # "new" => image'[c] = image[c]
<1> USE DEF IInv, TypeOK, AskedInv
<1>1. CASE UNCHANGED vars
  BY <1>1
<1>2. ASSUME NEW t \in Loaders, LoaderStep(t)
      PROVE  phase' = phase /\ image' = image
  BY <1>2 DEF LoaderStep, ReportZero, RunListener, ReportProgress, Begin,
        GetBitmap, NativeRaises, CallListener, EndRaise, RaiseThrows,
        Decoded, DecodeFails, DecodeThrowsError, Uncaught, Assign, Unlisten,
        SetLoadingError, SetLoaded, PutBitmap, ReportOutcome
<1>3. ASSUME NEW c \in Clients, RequestOrLoadImage(c)
      PROVE  AskedInv' /\ \A d \in Clients : phase[d] # "new" => image'[d] = image[d]
  BY <1>3 DEF RequestOrLoadImage, OpenKnown, OpenNew
<1>4. ASSUME NEW c \in Clients, UiContinues(c) \/ Back(c) \/ Destroy(c)
      PROVE  image' = image /\ \A d \in Clients : phase'[d] = "new" => phase[d] = "new"
  BY <1>4 DEF UiContinues, LoadImageStarts, StartThread, LoadImageSkips,
        TestInProgress, Join, TestLoaded, Return, FreeForgotten, RunPosted,
        Back, Destroy
<1>5. ASSUME image' = image, \A d \in Clients : phase'[d] = "new" => phase[d] = "new"
      PROVE  AskedInv' /\ \A d \in Clients : phase[d] # "new" => image'[d] = image[d]
  BY <1>5
<1>6. CASE \E t \in Loaders : LoaderStep(t)
  BY <1>2, <1>5, <1>6
<1>7. CASE \E c \in Clients : UiContinues(c) \/ User(c)
  BY <1>3, <1>4, <1>5, <1>7 DEF User
<1> QED  BY <1>1, <1>6, <1>7 DEF Next

LEMMA StepD ==
    ASSUME IInv, DInv, [Next]_vars
    PROVE  DInv'
<1> USE DEF DInv
<1>1. \A s \in Loaders : target[s] # NULL => target'[s] = target[s]
  BY TargetsStep
<1>2. /\ ResultsInv'
      /\ \A s \in Loaders : result[s] # NULL => result'[s] = result[s]
  BY ResultsKept
<1>3. MapInv'
  <2> SUFFICES ASSUME NEW i \in Images, loadedBitmaps'[i] # NULL
               PROVE  \E t \in Loaders : target'[t] = i /\ result'[t] = loadedBitmaps'[i]
    BY DEF MapInv
  <2>1. \E t \in Loaders : target[t] = i /\ result[t] = loadedBitmaps'[i]
    BY MapStep DEF MapInv
  <2>2. i # NULL
    BY NullAssumption
  <2> QED  BY <1>1, <1>2, <2>1, <2>2
<1>4. LoadedInv'
  <2> SUFFICES ASSUME NEW i \in Images, loadingStates'[i] = "Loaded"
               PROVE  \E t \in Loaders : target'[t] = i /\ result'[t] \in Loaders
    BY DEF LoadedInv
  <2>1. \E t \in Loaders : target[t] = i /\ result[t] \in Loaders
    BY LoadedStep DEF LoadedInv
  <2>2. i # NULL /\ NULL \notin Loaders
    BY NullAssumption
  <2> QED  BY <1>1, <1>2, <2>1, <2>2
<1>5. AskedInv'
  BY AskedStep
<1> QED  BY <1>2, <1>3, <1>4, <1>5
-----------------------------------------------------------------------------
(* The refinement mapping.                                                 *)

LEMMA InitDelivers == Init => Delivery!Init
  BY DEF Init, RawImageLoaderInit, Delivery!Init, FileOf

(* What an image, a client and a load are called outside.                  *)
LEMMA NamesKept ==
    ASSUME IInv, [Next]_vars, NEW i \in Images, Exists(i)
    PROVE  imageFileNames'[i] = imageFileNames[i]
<1> USE DEF IInv, TypeOK, RawImageLoaderTypeOK
<1>1. CASE UNCHANGED vars
  BY <1>1
<1>2. ASSUME NEW t \in Loaders, LoaderStep(t)
      PROVE  imageFileNames' = imageFileNames
  BY <1>2 DEF LoaderStep, ReportZero, RunListener, ReportProgress, Begin,
        GetBitmap, NativeRaises, CallListener, EndRaise, RaiseThrows,
        Decoded, DecodeFails, DecodeThrowsError, Uncaught, Assign, Unlisten,
        SetLoadingError, SetLoaded, PutBitmap, ReportOutcome, RaiseProgressStart, RaiseProgressCall,
        RaiseProgressEnd, RaiseProgressThrows, AssignBitmap, ChangeList,
        RemoveProgressListener
<1>3. ASSUME NEW c \in Clients, RequestOrLoadImage(c)
      PROVE  imageFileNames'[i] = imageFileNames[i]
  BY <1>3 DEF RequestOrLoadImage, OpenKnown, OpenNew, CreateImageFromFile
<1>4. ASSUME NEW c \in Clients, UiContinues(c) \/ Back(c) \/ Destroy(c)
      PROVE  imageFileNames' = imageFileNames
  BY <1>4 DEF UiContinues, LoadImageStarts, StartThread, LoadImageSkips,
        TestInProgress, Join, TestLoaded, Return, FreeForgotten, RunPosted,
        Back, Destroy,
        AddProgressListener, ChangeList
<1> QED  BY <1>1, <1>2, <1>3, <1>4 DEF Next, User

LEMMA FilesKept ==
    ASSUME IInv, [Next]_vars
    PROVE  /\ \A c \in Clients : image'[c] = image[c] =>
                  FileOf(image[c])' = FileOf(image[c])
           /\ \A t \in Loaders : target'[t] = target[t] =>
                  FileOf(target[t])' = FileOf(target[t])
<1>1. \A i \in Images : Exists(i) => imageFileNames'[i] = imageFileNames[i]
  BY NamesKept
<1> QED  BY <1>1 DEF IInv, TypeOK, NamesInv, FileOf

LEMMA FilesOfNames ==
    ASSUME IInv
    PROVE  /\ \A c \in Clients : image[c] \in Images =>
                  FileOf(image[c]) = imageFileNames[image[c]]
                  /\ FileOf(image[c]) \in Files /\ FileOf(image[c]) # NULL
           /\ \A t \in Loaders : target[t] \in Images =>
                  FileOf(target[t]) = imageFileNames[target[t]]
                  /\ FileOf(target[t]) \in Files /\ FileOf(target[t]) # NULL
  BY NullAssumption DEF IInv, TypeOK, RawImageLoaderTypeOK, NamesInv, FileOf

(* The steps that nobody outside sees.                                     *)
LEMMA Unseen ==
    ASSUME IInv, [Next]_vars, image' = image, target' = target,
           result' = result, received' = received, alive' = alive,
           \A c \in Clients : phase'[c] = "gone" <=> phase[c] = "gone"
    PROVE  UNCHANGED Delivery!deliveryVars
  BY FilesKept DEF Delivery!deliveryVars

LEMMA AskDelivers ==
    ASSUME IInv, DInv, [Next]_vars, NEW c \in Clients, RequestOrLoadImage(c)
    PROVE  Delivery!Next
<1> USE DEF IInv, TypeOK, RawImageLoaderTypeOK
<1>1. phase[c] = "new" /\ FileOf(image[c]) = NULL
  BY DEF RequestOrLoadImage, DInv, AskedInv, FileOf
<1>2. PICK f \in Files : OpenKnown(c, f) \/ \E i \in Images : OpenNew(c, f, i)
  BY DEF RequestOrLoadImage
<1>3. image' = [image EXCEPT ![c] = image'[c]] /\ FileOf(image[c])' = f
  <2>1. CASE OpenKnown(c, f)
    BY <2>1, NullAssumption DEF OpenKnown, NamesInv, FileOf
  <2>2. CASE \E i \in Images : OpenNew(c, f, i)
    BY <2>2, NullAssumption DEF OpenNew, CreateImageFromFile, FileOf
  <2> QED  BY <1>2, <2>1, <2>2
<1>4. target' = target /\ result' = result /\ received' = received
      /\ alive' = alive /\ alive
  BY DEF RequestOrLoadImage
<1>5. \A d \in Clients : phase'[d] = "gone" <=> phase[d] = "gone"
  BY <1>1 DEF RequestOrLoadImage
<1>6. Delivery!Ask(c, f)
  <2>1. \A d \in Clients : d # c => FileOf(image[d])' = FileOf(image[d])
    BY <1>3, FilesKept
  <2>2. \A t \in Loaders : FileOf(target[t])' = FileOf(target[t])
    BY <1>4, FilesKept
  <2> HIDE DEF IInv, TypeOK, RawImageLoaderTypeOK
  <2> QED  BY <1>1, <1>3, <1>4, <1>5, <2>1, <2>2 DEF Delivery!Ask
<1> QED  BY <1>4, <1>6 DEF Delivery!Next

LEMMA StartDelivers ==
    ASSUME IInv, DInv, [Next]_vars, NEW c \in Clients, NEW t \in Loaders,
           LoadImageStarts(c, t)
    PROVE  Delivery!Next
<1> USE DEF IInv, TypeOK, RawImageLoaderTypeOK
<1>1. phase[c] = "loading" /\ image[c] \in Images /\ alive
  BY DEF LoadImageStarts, ClientsInv
<1>2. target[t] = NULL /\ target' = [target EXCEPT ![t] = image[c]]
  BY DEF LoadImageStarts, ThreadsInv
<1>3. image' = image /\ phase' = phase /\ result' = result
      /\ received' = received /\ alive' = alive
  BY DEF LoadImageStarts
<1>4. FileOf(target[t])' = FileOf(image[c])
  BY <1>2, <1>3, FilesKept DEF FileOf
<1>5. FileOf(target[t]) = NULL /\ FileOf(image[c]) # NULL
  BY <1>1, <1>2, FilesOfNames DEF FileOf
<1>6. Delivery!Start(t, c)
  BY <1>1, <1>2, <1>3, <1>4, <1>5, FilesKept DEF Delivery!Start
<1> QED  BY <1>1, <1>6 DEF Delivery!Next

(* A load ends with its own bitmap, one of its image, or a failure.        *)
LEMMA EndDelivers ==
    ASSUME IInv, DInv, [Next]_vars, NEW t \in Loaders,
           pc[t] \notin Settled, alive, pc[t] # "unborn",
           NEW o, result' = [result EXCEPT ![t] = o],
           o = Failed \/ (o \in Loaders /\ target[o] = target[t]),
           target' = target, image' = image, phase' = phase,
           received' = received, alive' = alive
    PROVE  Delivery!Next
<1> USE DEF IInv, TypeOK, RawImageLoaderTypeOK
<1>1. result[t] = NULL
  BY DEF DInv, ResultsInv
<1>2. FileOf(target[t]) # NULL
  BY FilesOfNames DEF ThreadsInv
<1>3. o \in Loaders => o \in Delivery!Bitmaps(FileOf(target[t]))
  BY NullAssumption DEF Delivery!Bitmaps
<1>4. Delivery!End(t, o)
  BY <1>1, <1>2, <1>3, FilesKept DEF Delivery!End
<1> QED  BY <1>4 DEF Delivery!Next

(* A client is called with what a load of its image ended with.            *)
LEMMA GiveDelivers ==
    ASSUME IInv, [Next]_vars, NEW c \in Clients, image[c] \in Images,
           phase[c] # "gone", alive, NEW t \in Loaders, target[t] = image[c],
           result[t] # NULL, NEW o,
           o = result[t] \/ (o = NULL /\ result[t] # Failed),
           received' = [received EXCEPT ![c] = @ \union {o}],
           target' = target, image' = image, phase' = phase,
           result' = result, alive' = alive
    PROVE  Delivery!Next
<1> USE DEF IInv, TypeOK, RawImageLoaderTypeOK
<1>1. FileOf(image[c]) # NULL
  BY FilesOfNames
<1>2. t \in Delivery!Ended(FileOf(image[c]))
  BY DEF Delivery!Ended
<1>3. Delivery!Give(c, o)
  BY <1>1, <1>2, FilesKept DEF Delivery!Give
<1>4. o \in Loaders \union {NULL, Failed}
  OBVIOUS
<1> QED  BY <1>3, <1>4 DEF Delivery!Next

LEMMA LeaveDelivers ==
    ASSUME IInv, [Next]_vars, NEW c \in Clients, Destroy(c)
    PROVE  Delivery!Next
<1> USE DEF IInv, TypeOK, RawImageLoaderTypeOK
<1>1. image[c] \in Images /\ alive
  BY DEF Destroy, ClientsInv
<1>2. FileOf(image[c]) # NULL
  BY <1>1, FilesOfNames
<1>3. image' = image /\ target' = target /\ result' = result
      /\ received' = received /\ alive' = alive
      /\ phase' = [phase EXCEPT ![c] = "gone"]
  BY DEF Destroy
<1>4. Delivery!Leave(c)
  BY <1>2, <1>3, FilesKept DEF Delivery!Leave
<1> QED  BY <1>1, <1>4 DEF Delivery!Next

LEMMA DieDelivers ==
    ASSUME IInv, [Next]_vars, alive, alive' = FALSE, image' = image,
           target' = target, result' = result, received' = received,
           phase' = phase
    PROVE  Delivery!Next
  BY FilesKept DEF Delivery!Next, Delivery!Die

LEMMA LoaderDelivers ==
    ASSUME IInv, DInv, [Next]_vars, NEW t \in Loaders, LoaderStep(t)
    PROVE  [Delivery!Next]_Delivery!deliveryVars
<1> USE DEF IInv
<1>1. CASE ReportZero(t) \/ RunListener(t)
  BY <1>1, Unseen DEF ReportZero, RunListener, ReportProgress
<1>2. CASE Begin(t) \/ Decoded(t) \/ NativeRaises(t) \/ EndRaise(t)
  BY <1>2, Unseen DEF Begin, Decoded, NativeRaises, EndRaise
<1>3. CASE \E l \in Loaders : CallListener(t, l)
  BY <1>3, Unseen DEF CallListener
<1>4. CASE GetBitmap(t)
  <2>1. pc[t] = "getBitmap" /\ alive /\ target' = target /\ image' = image
        /\ phase' = phase /\ received' = received /\ alive' = alive
    BY <1>4 DEF GetBitmap
  <2>2. CASE bitmap[target[t]] # NULL
    <3>1. target[t] \in Images
      BY <2>1 DEF ThreadsInv
    <3>2. bitmap[target[t]] \in Loaders /\ target[bitmap[target[t]]] = target[t]
      BY <2>2, <3>1 DEF TypeOK, RawImageLoaderTypeOK, OwnersInv
    <3>3. result' = [result EXCEPT ![t] = bitmap[target[t]]]
      BY <1>4, <2>2 DEF GetBitmap
    <3> QED  BY <2>1, <3>2, <3>3, EndDelivers DEF Settled
  <2>3. CASE bitmap[target[t]] = NULL
    <3>1. result' = result
      BY <1>4, <2>3 DEF GetBitmap
    <3> QED  BY <2>1, <3>1, Unseen
  <2> QED  BY <2>2, <2>3
<1>5. CASE RaiseThrows(t) \/ DecodeThrowsError(t)
  <2>1. alive /\ UNCHANGED <<target, image, result, received, phase>>
    BY <1>5 DEF RaiseThrows, DecodeThrowsError
  <2>2. alive' = FALSE \/ alive' = alive
    BY <1>5 DEF RaiseThrows, DecodeThrowsError, Uncaught
  <2> QED  BY <2>1, <2>2, Unseen, DieDelivers
<1>6. CASE DecodeFails(t)
  <2>1. pc[t] = "native" /\ alive /\ target' = target /\ image' = image
        /\ phase' = phase /\ received' = received /\ alive' = alive
        /\ result' = [result EXCEPT ![t] = Failed]
    BY <1>6 DEF DecodeFails
  <2> QED  BY <2>1, EndDelivers DEF Settled
<1>7. CASE Assign(t) \/ Unlisten(t)
  BY <1>7, Unseen DEF Assign, Unlisten
<1>8. CASE SetLoadingError(t) \/ SetLoaded(t) \/ PutBitmap(t)
  BY <1>8, Unseen DEF SetLoadingError, SetLoaded, PutBitmap
<1>9. CASE ReportOutcome(t)
  <2>1. pc[t] = "report" /\ alive /\ target' = target /\ image' = image
        /\ phase' = phase /\ result' = result /\ alive' = alive
    BY <1>9 DEF ReportOutcome
  <2>2. CASE received' = received
    BY <2>1, <2>2, Unseen
  <2>3. ASSUME NEW c \in Clients, CallReportNext(t, c),
               received' = [received EXCEPT ![c] = @ \union {result[t]}]
        PROVE  Delivery!Next
    <3>1. image[c] = target[t] /\ phase[c] # "gone"
      BY <2>1, <2>3 DEF CallReportNext, ReportersInv
    <3>2. target[t] \in Images /\ result[t] # NULL
      BY <2>1 DEF ThreadsInv, DInv, ResultsInv, Settled
    <3> QED  BY <2>1, <2>3, <3>1, <3>2, GiveDelivers
  <2> QED  BY <1>9, <2>2, <2>3 DEF ReportOutcome
<1> QED  BY <1>1, <1>2, <1>3, <1>4, <1>5, <1>6, <1>7, <1>8, <1>9
         DEF LoaderStep

LEMMA UiDelivers ==
    ASSUME IInv, DInv, [Next]_vars, NEW c \in Clients,
           UiContinues(c) \/ User(c)
    PROVE  [Delivery!Next]_Delivery!deliveryVars
<1> USE DEF IInv
<1>1. CASE \E t \in Loaders : LoadImageStarts(c, t)
  BY <1>1, StartDelivers
<1>2. CASE \E t \in Loaders : StartThread(c, t)
  BY <1>2, Unseen DEF StartThread
<1>3. CASE LoadImageSkips(c) \/ TestInProgress(c) \/ Join(c)
  BY <1>3, Unseen DEF LoadImageSkips, TestInProgress, Join
<1>4. CASE TestLoaded(c)
  <2>1. target' = target /\ image' = image /\ phase' = phase
        /\ result' = result /\ alive' = alive /\ alive
    BY <1>4 DEF TestLoaded
  <2>2. CASE loadingStates[image[c]] # "Loaded"
    BY <1>4, <2>1, <2>2, Unseen DEF TestLoaded
  <2>3. CASE loadingStates[image[c]] = "Loaded"
    <3>1. image[c] \in Images /\ phase[c] = "loading"
      BY <1>4 DEF TestLoaded, ClientsInv
    <3>2. received' = [received EXCEPT ![c] = @ \union {loadedBitmaps[image[c]]}]
      BY <1>4, <2>3 DEF TestLoaded
    <3>3. CASE loadedBitmaps[image[c]] # NULL
      <4>1. PICK t \in Loaders : /\ target[t] = image[c]
                                 /\ result[t] = loadedBitmaps[image[c]]
        BY <3>1, <3>3 DEF DInv, MapInv
      <4> QED  BY <2>1, <3>1, <3>2, <3>3, <4>1, GiveDelivers
    <3>4. CASE loadedBitmaps[image[c]] = NULL
      <4>1. PICK t \in Loaders : target[t] = image[c] /\ result[t] \in Loaders
        BY <2>3, <3>1 DEF DInv, LoadedInv
      <4>2. result[t] # NULL /\ result[t] # Failed
        BY <4>1, NullAssumption
      <4> QED  BY <2>1, <3>1, <3>2, <3>4, <4>1, <4>2, GiveDelivers
    <3> QED  BY <3>3, <3>4
  <2> QED  BY <2>2, <2>3
<1>5. CASE Return(c)
  <2>1. phase[c] = "loading"
    BY <1>5 DEF Return, ClientsInv
  <2> QED  BY <1>5, <2>1, Unseen DEF Return, TypeOK
<1>6. CASE FreeForgotten(c)
  <2>1. alive' = FALSE \/ alive' = alive
    BY <1>6 DEF FreeForgotten
  <2> QED  BY <1>6, <2>1, Unseen, DieDelivers DEF FreeForgotten
<1>7. CASE RequestOrLoadImage(c)
  BY <1>7, AskDelivers
<1>8. CASE Back(c)
  BY <1>8, Unseen DEF Back, TypeOK
<1>9. CASE Destroy(c)
  BY <1>9, LeaveDelivers
<1>10. CASE RunPosted(c)
  <2>1. alive /\ UNCHANGED <<target, image, result, received, phase>>
    BY <1>10 DEF RunPosted
  <2>2. alive' = FALSE \/ alive' = alive
    BY <1>10 DEF RunPosted, ShowProgress, ShowIsRefused, DismissProgress
  <2> QED  BY <2>1, <2>2, Unseen, DieDelivers
<1> QED  BY <1>1, <1>2, <1>3, <1>4, <1>5, <1>6, <1>7, <1>8, <1>9, <1>10
         DEF UiContinues, User

LEMMA StepDelivers ==
    ASSUME IInv, DInv, [Next]_vars
    PROVE  [Delivery!Next]_Delivery!deliveryVars
<1>1. CASE \E t \in Loaders : LoaderStep(t)
  BY <1>1, LoaderDelivers
<1>2. CASE \E c \in Clients : UiContinues(c) \/ User(c)
  BY <1>2, UiDelivers
<1>3. CASE UNCHANGED vars
  BY <1>3, Unseen
<1> QED  BY <1>1, <1>2, <1>3 DEF Next

(* The registry promises what ImageDelivery says: a client is given only   *)
(* what a load of its own file has ended with, an end is not taken back,   *)
(* and a client that has left is given nothing.                            *)
THEOREM RegistryDelivers == Spec => Delivers
<1>1. Spec => []DInv
  <2>1. IInv /\ DInv /\ [Next]_vars => DInv'
    BY StepD
  <2> QED  BY <2>1, InitD, Invariance, PTL DEF Spec
<1>2. IInv /\ DInv /\ [Next]_vars => [Delivery!Next]_Delivery!deliveryVars
  BY StepDelivers
<1> QED  BY <1>1, <1>2, InitDelivers, Invariance, PTL DEF Spec, Delivers, Delivery!Spec
-----------------------------------------------------------------------------
(***************************************************************************)
(* What the loads leave behind: no listener, and no state that is half     *)
(* done.                                                                   *)
(***************************************************************************)
(* An image is LoadingInProgress only as long as a thread that will put    *)
(* the final state is between Begin and that, or after one was killed.     *)
WillSetState == {"getBitmap", "native", "raise", "listener", "assign",
                 "unlisten", "setState"}

ProgressInv ==
    \A i \in Images : loadingStates[i] = "LoadingInProgress" =>
        \E t \in Loaders :
            target[t] = i /\ (pc[t] \in WillSetState \/ Killed(t))

(* The state Loaded is ahead of the map by one step of one thread.         *)
PutInv ==
    \A i \in Images : Registered(i) /\ loadingStates[i] = "Loaded" =>
        \/ loadedBitmaps[i] # NULL
        \/ \E t \in Loaders : target[t] = i /\ pc[t] = "putBitmap"

(* As long as the UI thread is in loadImage, the image is registered.      *)
AskedRegisteredInv ==
    ui.step \notin {"idle", "forget"} => Registered(image[ui.client])

SInv ==
    /\ ListenersAreActiveLoads
    /\ ProgressInv
    /\ PutInv
    /\ AskedRegisteredInv
-----------------------------------------------------------------------------
USE DEF vars, iterationVars, reportersVars, loaderVars, registryVars,
      threadVars, clientVars, LoaderAt, Become, UiAt, AtUi, Idle, GoTo,
      Exists, Registered, MonitorFree

(* Nothing is registered, loading or listening at first.                   *)
LEMMA InitS == Init => SInv
<1> SUFFICES ASSUME Init PROVE SInv
  OBVIOUS
<1> USE DEF Init
<1>1. ListenersAreActiveLoads
  BY DEF ListenersAreActiveLoads, Loading, Killed, RawImageLoaderInit
<1>2. ProgressInv /\ PutInv /\ AskedRegisteredInv
  BY StateAssumption DEF ProgressInv, PutInv, AskedRegisteredInv, LoadingState
<1> QED  BY <1>1, <1>2 DEF SInv

(* A listener enters the list with the thread it is made for, before that  *)
(* thread is started, and leaves it on every way out of the decoding.      *)
LEMMA ListenersStep ==
    ASSUME IInv, ListenersAreActiveLoads, [Next]_vars
    PROVE  ListenersAreActiveLoads'
<1> USE DEF IInv, TypeOK, ListenersAreActiveLoads, Loading, Killed
<1>1. CASE UNCHANGED vars
  BY <1>1
<1>2. ASSUME NEW t \in Loaders, LoaderStep(t) PROVE ListenersAreActiveLoads'
  <2>1. CASE ReportZero(t) \/ RunListener(t)
    BY <2>1 DEF ReportZero, RunListener, ReportProgress
  <2>2. CASE Begin(t) \/ GetBitmap(t) \/ Decoded(t) \/ DecodeFails(t)
    BY <2>2 DEF Begin, GetBitmap, Decoded, DecodeFails
  <2>3. CASE NativeRaises(t) \/ EndRaise(t) \/ RaiseThrows(t)
    BY <2>3 DEF NativeRaises, EndRaise, RaiseThrows, RaiseProgressStart,
          RaiseProgressEnd, RaiseProgressThrows, Uncaught
  <2>4. CASE \E l \in Loaders : CallListener(t, l)
    BY <2>4 DEF CallListener, RaiseProgressCall
  <2>5. CASE Assign(t)
    BY <2>5 DEF Assign, AssignBitmap
  <2>6. CASE Unlisten(t)
    BY <2>6 DEF Unlisten, RemoveProgressListener, ChangeList
  <2>7. CASE SetLoadingError(t) \/ SetLoaded(t) \/ PutBitmap(t)
    BY <2>7 DEF SetLoadingError, SetLoaded, PutBitmap
  <2>8. CASE ReportOutcome(t)
    BY <2>8 DEF ReportOutcome
  <2>9. CASE DecodeThrowsError(t)
    BY <2>9 DEF DecodeThrowsError, Uncaught
  <2> QED  BY <1>2, <2>1, <2>2, <2>3, <2>4, <2>5, <2>6, <2>7, <2>8, <2>9
           DEF LoaderStep
<1>3. ASSUME NEW c \in Clients, NEW t \in Loaders, LoadImageStarts(c, t)
      PROVE  ListenersAreActiveLoads'
  BY <1>3 DEF LoadImageStarts, AddProgressListener, ChangeList
<1>4. ASSUME NEW c \in Clients, NEW t \in Loaders, StartThread(c, t)
      PROVE  ListenersAreActiveLoads'
  BY <1>4 DEF StartThread
<1>5. ASSUME NEW c \in Clients, RequestOrLoadImage(c)
      PROVE  ListenersAreActiveLoads'
  BY <1>5 DEF RequestOrLoadImage, OpenKnown, OpenNew, CreateImageFromFile
<1>6. ASSUME NEW c \in Clients, LoadImageSkips(c) \/ TestInProgress(c) \/ Join(c)
             \/ TestLoaded(c) \/ Return(c) \/ FreeForgotten(c) \/ RunPosted(c)
             \/ Back(c) \/ Destroy(c)
      PROVE  ListenersAreActiveLoads'
  BY <1>6 DEF LoadImageSkips, TestInProgress, Join, TestLoaded, Return,
        FreeForgotten, RunPosted, Back, Destroy
<1> QED  BY <1>1, <1>2, <1>3, <1>4, <1>5, <1>6 DEF Next, UiContinues, User

(* What the UI thread does to the threads: it makes one, and starts it.    *)
LEMMA ThreadsKept ==
    ASSUME IInv, NEW c \in Clients, UiContinues(c) \/ User(c)
    PROVE  \A t \in Loaders : pc[t] \notin {"unborn", "created"} =>
               pc'[t] = pc[t] /\ target'[t] = target[t]
<1> USE DEF IInv, TypeOK
<1>1. CASE \E t \in Loaders : LoadImageStarts(c, t)
  BY <1>1 DEF LoadImageStarts
<1>2. CASE \E t \in Loaders : StartThread(c, t)
  BY <1>2 DEF StartThread
<1>3. CASE RequestOrLoadImage(c)
  BY <1>3 DEF RequestOrLoadImage
<1>4. CASE LoadImageSkips(c) \/ TestInProgress(c) \/ Join(c) \/ TestLoaded(c)
           \/ Return(c) \/ FreeForgotten(c) \/ RunPosted(c) \/ Back(c) \/ Destroy(c)
  BY <1>4 DEF LoadImageSkips, TestInProgress, Join, TestLoaded, Return,
        FreeForgotten, RunPosted, Back, Destroy
<1> QED  BY <1>1, <1>2, <1>3, <1>4 DEF UiContinues, User

(* ... and to the states: a new image is not loaded, a forgotten one has   *)
(* no state.                                                               *)
LEMMA StatesKept ==
    ASSUME IInv, NEW c \in Clients, UiContinues(c) \/ User(c), NEW i \in Images,
           loadingStates'[i] \in {"LoadingInProgress", "Loaded"}
    PROVE  /\ loadingStates'[i] = loadingStates[i]
           /\ Registered(i)' => Registered(i)
<1> USE DEF IInv, TypeOK
<1>1. CASE RequestOrLoadImage(c)
  <2>1. PICK f \in Files : OpenKnown(c, f) \/ \E j \in Images : OpenNew(c, f, j)
    BY <1>1 DEF RequestOrLoadImage
  <2>2. CASE OpenKnown(c, f)
    BY <2>2 DEF OpenKnown
  <2>3. ASSUME NEW j \in Images, OpenNew(c, f, j)
        PROVE  /\ loadingStates'[i] = loadingStates[i]
               /\ Registered(i)' => Registered(i)
    <3>1. i # j
      BY <2>3 DEF OpenNew
    <3>2. \A g \in Files : registry'[g] = i => registry[g] = i
      BY <2>3, <3>1 DEF OpenNew
    <3> QED  BY <2>3, <3>1, <3>2 DEF OpenNew
  <2> QED  BY <2>1, <2>2, <2>3
<1>2. CASE Back(c)
  <2>1. CASE UNCHANGED <<registry, loadingStates>>
    BY <2>1
  <2>2. ASSUME NEW f \in Files, registry[f] = image[c], Forget(f, image[c])
        PROVE  /\ loadingStates'[i] = loadingStates[i]
               /\ Registered(i)' => Registered(i)
    <3>1. \A g \in Files : registry'[g] = i => registry[g] = i
      BY <2>2, NullAssumption DEF Forget
    <3>2. i # image[c]
      BY <2>2, StateAssumption DEF Forget, LoadingState
    <3> QED  BY <2>2, <3>1, <3>2 DEF Forget
  <2> QED  BY <1>2, <2>1, <2>2 DEF Back
<1>3. CASE UiContinues(c) \/ Destroy(c)
  <2>1. UNCHANGED <<registry, loadingStates>>
    BY <1>3 DEF UiContinues, LoadImageStarts, StartThread, LoadImageSkips,
          TestInProgress, Join, TestLoaded, Return, FreeForgotten, RunPosted,
        Destroy
  <2> QED  BY <2>1
<1> QED  BY <1>1, <1>2, <1>3 DEF User

(* The steps of a loader thread other than those that touch the states:    *)
(* it stays between Begin and its final state, or before or after them,    *)
(* unless it is killed there.                                              *)
LEMMA OtherSteps ==
    ASSUME IInv, NEW t \in Loaders, LoaderStep(t),
           ~ Begin(t), ~ SetLoadingError(t), ~ SetLoaded(t), ~ PutBitmap(t)
    PROVE  /\ UNCHANGED <<registry, loadingStates, loadedBitmaps, target>>
           /\ \A s \in Loaders :
                 /\ pc[s] \in WillSetState => pc'[s] \in WillSetState \/ Killed(s)'
                 /\ Killed(s) => Killed(s)'
                 /\ pc[s] = "putBitmap" => pc'[s] = "putBitmap"
<1> USE DEF IInv, TypeOK, WillSetState, Killed
<1>1. CASE ReportZero(t) \/ RunListener(t)
  BY <1>1 DEF ReportZero, RunListener, ReportProgress
<1>2. CASE GetBitmap(t)
  BY <1>2 DEF GetBitmap
<1>3. CASE NativeRaises(t) \/ EndRaise(t) \/ RaiseThrows(t)
  BY <1>3 DEF NativeRaises, EndRaise, RaiseThrows, Uncaught
<1>4. CASE \E l \in Loaders : CallListener(t, l)
  BY <1>4 DEF CallListener
<1>5. CASE Decoded(t) \/ DecodeFails(t) \/ Assign(t) \/ Unlisten(t)
  BY <1>5 DEF Decoded, DecodeFails, Assign, Unlisten
<1>6. CASE ReportOutcome(t)
  BY <1>6 DEF ReportOutcome
<1>7. CASE DecodeThrowsError(t)
  BY <1>7 DEF DecodeThrowsError, Uncaught
<1> QED  BY <1>1, <1>2, <1>3, <1>4, <1>5, <1>6, <1>7 DEF LoaderStep

(* A final state that one thread puts may be overtaken by the Begin of     *)
(* another one of the same image; that one then puts its own.              *)
LEMMA ProgressStep ==
    ASSUME IInv, ProgressInv, [Next]_vars
    PROVE  ProgressInv'
<1> USE DEF IInv, TypeOK, ProgressInv, WillSetState, Killed
<1>1. CASE UNCHANGED vars
  BY <1>1
<1>2. ASSUME NEW t \in Loaders, Begin(t) PROVE ProgressInv'
  <2>1. target[t] \in Images
    BY <1>2 DEF Begin, ThreadsInv
  <2> QED  BY <1>2, <2>1 DEF Begin
<1>3. ASSUME NEW t \in Loaders, SetLoadingError(t) \/ SetLoaded(t)
      PROVE  ProgressInv'
  <2> SUFFICES ASSUME NEW i \in Images, loadingStates'[i] = "LoadingInProgress"
               PROVE  \E s \in Loaders :
                          target'[s] = i /\ pc'[s] \in WillSetState \union {"killed"}
    OBVIOUS
  <2>1. i # target[t] /\ loadingStates[i] = "LoadingInProgress"
    BY <1>3 DEF SetLoadingError, SetLoaded
  <2>2. PICK s \in Loaders : target[s] = i /\ pc[s] \in WillSetState \union {"killed"}
    BY <2>1
  <2> QED  BY <1>3, <2>1, <2>2 DEF SetLoadingError, SetLoaded
<1>4. ASSUME NEW t \in Loaders, PutBitmap(t) PROVE ProgressInv'
  BY <1>4 DEF PutBitmap
<1>5. ASSUME NEW t \in Loaders, LoaderStep(t), ~ Begin(t), ~ SetLoadingError(t),
             ~ SetLoaded(t), ~ PutBitmap(t)
      PROVE  ProgressInv'
  BY <1>5, OtherSteps
<1>6. ASSUME NEW c \in Clients, UiContinues(c) \/ User(c) PROVE ProgressInv'
  BY <1>6, ThreadsKept, StatesKept
<1> QED  BY <1>1, <1>2, <1>3, <1>4, <1>5, <1>6 DEF Next

(* Only forgetImage takes a bitmap out of the map, of an image that is not *)
(* registered any more.                                                    *)
LEMMA MapKept ==
    ASSUME IInv, NEW c \in Clients, UiContinues(c) \/ User(c), NEW i \in Images,
           Registered(i)
    PROVE  loadedBitmaps'[i] = loadedBitmaps[i]
<1> USE DEF IInv, TypeOK
<1>1. CASE FreeForgotten(c)
  <2>1. image[c] # i
    BY <1>1 DEF FreeForgotten, FreedInv
  <2> QED  BY <1>1, <2>1 DEF FreeForgotten
<1>2. CASE RequestOrLoadImage(c)
  BY <1>2 DEF RequestOrLoadImage, OpenKnown, OpenNew
<1>3. CASE Back(c) \/ Destroy(c)
  BY <1>3 DEF Back, Destroy
<1>4. CASE UiContinues(c) /\ ~ FreeForgotten(c)
  BY <1>4 DEF UiContinues, LoadImageStarts, StartThread, LoadImageSkips,
        TestInProgress, Join, TestLoaded, Return, RunPosted
<1> QED  BY <1>1, <1>2, <1>3, <1>4 DEF User

(* SetLoaded is followed by the PutBitmap of the same thread, whatever the *)
(* others do between them.                                                 *)
LEMMA PutStep ==
    ASSUME IInv, ResultsInv, PutInv, [Next]_vars
    PROVE  PutInv'
<1> USE DEF IInv, TypeOK, PutInv
<1>1. CASE UNCHANGED vars
  BY <1>1
<1>2. ASSUME NEW t \in Loaders, Begin(t) \/ SetLoadingError(t) PROVE PutInv'
  BY <1>2 DEF Begin, SetLoadingError
<1>3. ASSUME NEW t \in Loaders, SetLoaded(t) PROVE PutInv'
  BY <1>3 DEF SetLoaded
<1>4. ASSUME NEW t \in Loaders, PutBitmap(t) PROVE PutInv'
  <2>1. result[t] # NULL
    BY <1>4 DEF PutBitmap, ResultsInv, Settled
  <2> QED  BY <1>4, <2>1 DEF PutBitmap
<1>5. ASSUME NEW t \in Loaders, LoaderStep(t), ~ Begin(t), ~ SetLoadingError(t),
             ~ SetLoaded(t), ~ PutBitmap(t)
      PROVE  PutInv'
  BY <1>5, OtherSteps
<1>6. ASSUME NEW c \in Clients, UiContinues(c) \/ User(c) PROVE PutInv'
  BY <1>6, ThreadsKept, StatesKept, MapKept
<1> QED  BY <1>1, <1>2, <1>3, <1>4, <1>5, <1>6 DEF Next

(* The UI thread is in one place, in loadImage or in forgetImage.          *)
LEMMA AskedRegisteredStep ==
    ASSUME IInv, AskedRegisteredInv, [Next]_vars
    PROVE  AskedRegisteredInv'
<1> USE DEF IInv, TypeOK, AskedRegisteredInv
<1>1. CASE UNCHANGED <<registry, image, ui>>
  BY <1>1
<1>2. ASSUME NEW t \in Loaders, LoaderStep(t)
      PROVE  UNCHANGED <<registry, image, ui>>
  BY <1>2 DEF LoaderStep, ReportZero, RunListener, ReportProgress, Begin,
        GetBitmap, NativeRaises, CallListener, EndRaise, RaiseThrows,
        Decoded, DecodeFails, DecodeThrowsError, Uncaught, Assign, Unlisten,
        SetLoadingError, SetLoaded, PutBitmap, ReportOutcome
<1>3. ASSUME NEW c \in Clients, RequestOrLoadImage(c)
      PROVE  AskedRegisteredInv'
  <2>1. ui' = [step |-> "load", client |-> c]
    BY <1>3 DEF RequestOrLoadImage
  <2>2. \E f \in Files : registry'[f] = image'[c]
    BY <1>3 DEF RequestOrLoadImage, OpenKnown, OpenNew
  <2> QED  BY <2>1, <2>2
<1>4. ASSUME NEW c \in Clients, Back(c)
      PROVE  AskedRegisteredInv'
  BY <1>4 DEF Back
<1>5. ASSUME NEW c \in Clients, UiContinues(c) \/ Destroy(c)
      PROVE  /\ UNCHANGED <<registry, image>>
             /\ \/ ui' = ui \/ ui'.step = "idle"
                \/ ui.step \notin {"idle", "forget"} /\ ui'.client = ui.client
  BY <1>5 DEF UiContinues, LoadImageStarts, StartThread, LoadImageSkips,
        TestInProgress, Join, TestLoaded, Return, FreeForgotten, RunPosted,
        Destroy
<1> QED  BY <1>1, <1>2, <1>3, <1>4, <1>5 DEF Next, User

(* SInv is an invariant, from those that ImagesRegistryProofs and          *)
(* ImagesRegistryDelivers prove.                                           *)
LEMMA SettledInvariance == Spec => [](IInv /\ DInv /\ SInv)
<1>1. IInv /\ DInv /\ SInv /\ [Next]_vars => DInv' /\ SInv'
  BY StepD, ListenersStep, ProgressStep, PutStep, AskedRegisteredStep
     DEF SInv, DInv
<1> QED  BY <1>1, InitS, InitD, Invariance, PTL DEF Spec

(* The listeners in the list are those of the loads under way and of the   *)
(* loads that an uncaught error has killed, whatever other loads fail, and *)
(* however many decode one image at once.                                  *)
THEOREM NoListenerLeft == Spec => []ListenersAreActiveLoads
<1>1. SInv => ListenersAreActiveLoads
  BY DEF SInv
<1> QED  BY <1>1, SettledInvariance, PTL

(* When no load of a registered image is under way, and none was killed by *)
(* an error that run() does not catch, its state is final and Loaded only  *)
(* with a bitmap in the map.                                               *)
THEOREM StatesSettle == Spec => []SettledStates
<1>1. IInv /\ SInv => SettledStates
  BY DEF IInv, TypeOK, SInv, ProgressInv, PutInv, WillSetState, Killed,
        SettledStates, Busy
<1> QED  BY <1>1, SettledInvariance, PTL

(* loadImage hands null to its caller only when it has read the state of a *)
(* load that has not yet put its bitmap, never after a forgetImage of the  *)
(* same image by another activity or a failure of a doubled load.          *)
THEOREM NullOnlyBeforePut == Spec => NullOnlyBetweenPuts
<1> DEFINE Before(c) ==
        NULL \in received'[c] \ received[c] =>
            \E t \in Loaders : target[t] = image[c] /\ pc[t] = "putBitmap"
<1>1. IInv /\ DInv /\ SInv /\ [Next]_vars => [\A c \in Clients : Before(c)]_vars
  <2> SUFFICES ASSUME IInv, DInv, SInv, [Next]_vars, NEW d \in Clients,
                      NULL \in received'[d] \ received[d]
               PROVE  \E t \in Loaders : target[t] = image[d] /\ pc[t] = "putBitmap"
    OBVIOUS
  <2> USE DEF IInv, TypeOK
  <2>1. ~ UNCHANGED vars
    OBVIOUS
  <2>2. ASSUME NEW t \in Loaders, ReportOutcome(t)
        PROVE  FALSE
    <3>1. pc[t] = "report"
      BY <2>2 DEF ReportOutcome
    <3>2. result[t] # NULL
      BY <3>1 DEF DInv, ResultsInv, Settled
    <3> QED  BY <2>2, <3>2 DEF ReportOutcome
  <2>3. ASSUME NEW t \in Loaders, LoaderStep(t), ~ ReportOutcome(t)
        PROVE  FALSE
    BY <2>3 DEF LoaderStep, ReportZero, RunListener, ReportProgress, Begin,
          GetBitmap, NativeRaises, CallListener, EndRaise, RaiseThrows,
          Decoded, DecodeFails, DecodeThrowsError, Uncaught, Assign, Unlisten,
          SetLoadingError, SetLoaded, PutBitmap
  <2>4. ASSUME NEW c \in Clients, TestLoaded(c)
        PROVE  \E t \in Loaders : target[t] = image[d] /\ pc[t] = "putBitmap"
    <3>1. image[c] \in Images /\ Registered(image[c])
      BY <2>4 DEF TestLoaded, ClientsInv, SInv, AskedRegisteredInv
    <3>2. d = c /\ loadingStates[image[c]] = "Loaded" /\ loadedBitmaps[image[c]] = NULL
      BY <2>4 DEF TestLoaded
    <3> QED  BY <3>1, <3>2 DEF SInv, PutInv
  <2>5. ASSUME NEW c \in Clients, UiContinues(c) \/ User(c), ~ TestLoaded(c)
        PROVE  FALSE
    BY <2>5 DEF UiContinues, User, LoadImageStarts, StartThread, LoadImageSkips,
          TestInProgress, Join, Return, FreeForgotten, RunPosted,
          RequestOrLoadImage, Back, Destroy
  <2> QED  BY <2>1, <2>2, <2>3, <2>4, <2>5 DEF Next
<1> QED  BY <1>1, SettledInvariance, PTL DEF Spec, NullOnlyBetweenPuts
=============================================================================
