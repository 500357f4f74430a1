------------------------ MODULE ImagesRegistryProofs ------------------------
(***************************************************************************)
(* Proofs about ImagesRegistry for any sets of files, images, clients and  *)
(* loader threads and for both front ends.                                 *)
(*                                                                         *)
(* The inductive invariant says who an object belongs to: a thread, its    *)
(* bitmap and its result to one image, a client's reporter and what it     *)
(* received to the image of that client, an image to one file.             *)
(***************************************************************************)
EXTENDS ImagesRegistry, TLAPS

(* Clients past their start have an image, threads past theirs a target.   *)
ClientsInv ==
    /\ \A c \in Clients : IF phase[c] = "new" THEN received[c] = {}
                                              ELSE image[c] \in Images
    /\ ui = Idle \/ (/\ ui.step # "idle"
                     /\ ui.client \in Clients
                     /\ phase[ui.client] =
                          IF ui.step = "forget" THEN "finishing" ELSE "loading")

ThreadsInv ==
    /\ \A t \in Loaders : IF pc[t] = "unborn" THEN target[t] = NULL
                                              ELSE target[t] \in Images
    /\ \A t \in Loaders : pc[t] = "putBitmap" => result[t] # Failed
    /\ \A l \in progressListeners : pc[l] # "unborn"
    /\ \A t \in Loaders : \A l \in toCall[t] : pc[l] # "unborn"
    /\ \A t \in Loaders : pc[t] = "listener" =>
           calling[t] \in Loaders /\ pc[calling[t]] # "unborn"

(* An image in use exists, and is registered under its own file only.      *)
NamesInv ==
    /\ \A c \in Clients : image[c] \in Images => Exists(image[c])
    /\ \A t \in Loaders : target[t] \in Images => Exists(target[t])
    /\ \A f \in Files : registry[f] \in Images => imageFileNames[registry[f]] = f

(* Every place that holds a bitmap of thread b belongs to b's image.       *)
OwnersInv ==
    /\ \A i \in Images : bitmap[i] \in Loaders => target[bitmap[i]] = i
    /\ \A i \in Images : loadedBitmaps[i] \in Loaders => target[loadedBitmaps[i]] = i
    /\ \A t \in Loaders : result[t] \in Loaders =>
           target[result[t]] = target[t] /\ target[t] \in Images
    /\ \A c \in Clients : \A b \in received[c] \cap Loaders :
           target[b] = image[c] /\ target[b] \in Images

ReportersInv ==
    /\ \A i \in Images : \A c \in imageLoaderReporters[i] :
           image[c] = i /\ phase[c] \notin {"new", "gone"}
    /\ monitor = NULL => toNotify = {}
    /\ \A c \in toNotify : phase[c] \notin {"new", "gone"}
    /\ \A t \in Loaders : monitor = t => pc[t] \in {"zero", "listener", "report"}
    /\ \A t \in Loaders : monitor = t /\ pc[t] = "report" =>
           \A c \in toNotify : image[c] = target[t]

(* What is freed belongs to forgotten images.                              *)
FreedInv ==
    /\ \A b \in freed : target[b] \in Images /\ ~ Registered(target[b])
    /\ ui.step = "forget" => ~ Registered(image[ui.client])

IInv ==
    /\ TypeOK
    /\ ClientsInv
    /\ ThreadsInv
    /\ NamesInv
    /\ OwnersInv
    /\ ReportersInv
    /\ FreedInv
-----------------------------------------------------------------------------
(* Operators that only name a conjunct or a tuple stay expanded below.     *)
USE DEF vars, iterationVars, reportersVars, loaderVars, registryVars,
      threadVars, clientVars, LoaderAt, Become, UiAt, AtUi, Idle, GoTo,
      Exists, Registered, MonitorFree

(* One lemma per step of the loader threads and of the UI thread.          *)

(* What a reporter leaves to the UI thread is of the type of posts.        *)
LEMMA ReporterPosts ==
    ASSUME posted \in [Clients -> Posts], NEW c \in Clients,
           NEW work \in {"show", "dismiss"}, ReporterRuns(c, work)
    PROVE  posted' \in [Clients -> Posts]
  BY DEF ReporterRuns, Posts

LEMMA ReportZeroInv ==
    ASSUME IInv, NEW t \in Loaders, ReportZero(t)
    PROVE  IInv'
<1> USE DEF IInv, ReportZero, ReportProgress, ReporterRuns, CallReportEnter,
        CallReportNext, CallReportLeave, ReportersOf
<1>1. TypeOK'
  <2>1. ReportersTypeOK'
    BY DEF TypeOK, ReportersTypeOK, ThreadsInv, ClientsInv
  <2>2. pc' \in [Loaders -> ThreadPc]
    BY DEF TypeOK, ThreadPc
  <2>3. posted' \in [Clients -> Posts]
    BY ReporterPosts DEF TypeOK
  <2> QED  BY <2>1, <2>2, <2>3 DEF TypeOK, RawImageLoaderTypeOK
<1>2. ThreadsInv'
  BY NullAssumption DEF ThreadsInv, ReportersInv, TypeOK, ReportersTypeOK,
        RawImageLoaderTypeOK, ThreadPc
<1>3. ReportersInv'
  BY NullAssumption DEF ReportersInv, ClientsInv, ThreadsInv, TypeOK,
        ReportersTypeOK, RawImageLoaderTypeOK
<1>4. ClientsInv' /\ NamesInv' /\ OwnersInv' /\ FreedInv'
  BY DEF ClientsInv, NamesInv, OwnersInv, FreedInv
<1> QED  BY <1>1, <1>2, <1>3, <1>4

LEMMA BeginInv ==
    ASSUME IInv, NEW t \in Loaders, Begin(t)
    PROVE  IInv'
<1> USE DEF IInv, Begin
<1>1. TypeOK'
  <2>1. loadingStates' \in [Images -> LoadingState \union {NULL}]
    BY DEF TypeOK, ThreadsInv, LoadingState
  <2>2. pc' \in [Loaders -> ThreadPc]
    BY DEF TypeOK, ThreadPc
  <2> QED  BY <2>1, <2>2 DEF TypeOK, ReportersTypeOK, RawImageLoaderTypeOK
<1>2. ThreadsInv'
  BY NullAssumption DEF ThreadsInv, ReportersInv, TypeOK, ReportersTypeOK,
        RawImageLoaderTypeOK, ThreadPc
<1>3. ReportersInv'
  BY NullAssumption DEF ReportersInv, ClientsInv, ThreadsInv, TypeOK,
        ReportersTypeOK, RawImageLoaderTypeOK
<1>4. ClientsInv' /\ NamesInv' /\ OwnersInv' /\ FreedInv'
  BY DEF ClientsInv, NamesInv, OwnersInv, FreedInv
<1> QED  BY <1>1, <1>2, <1>3, <1>4

LEMMA GetBitmapInv ==
    ASSUME IInv, NEW t \in Loaders, GetBitmap(t)
    PROVE  IInv'
<1> USE DEF IInv, GetBitmap
<1>1. TypeOK'
  <2>1. pc' \in [Loaders -> ThreadPc]
    BY DEF TypeOK, ThreadPc
  <2>2. result' \in [Loaders -> Loaders \union {NULL, Failed}]
    BY DEF TypeOK, ThreadsInv, RawImageLoaderTypeOK
  <2> QED  BY <2>1, <2>2 DEF TypeOK, ReportersTypeOK, RawImageLoaderTypeOK
<1>2. ThreadsInv'
  <2>1. CASE bitmap[target[t]] # NULL
    <3>1. pc' = [pc EXCEPT ![t] = "unlisten"]
          /\ result' = [result EXCEPT ![t] = bitmap[target[t]]]
      BY <2>1
    <3> QED  BY <3>1 DEF ThreadsInv, TypeOK
  <2>2. CASE bitmap[target[t]] = NULL
    <3>1. pc' = [pc EXCEPT ![t] = "native"] /\ result' = result
      BY <2>2
    <3> QED  BY <3>1 DEF ThreadsInv, TypeOK
  <2> QED  BY <2>1, <2>2
<1>3. OwnersInv'
  <2>1. target[t] \in Images
    BY DEF ThreadsInv
  <2>2. CASE result' = [result EXCEPT ![t] = bitmap[target[t]]]
    BY <2>1, <2>2 DEF OwnersInv, TypeOK, RawImageLoaderTypeOK
  <2>3. CASE result' = result
    BY <2>3 DEF OwnersInv
  <2> QED  BY <2>2, <2>3
<1>4. ReportersInv'
  BY NullAssumption DEF ReportersInv, ClientsInv, ThreadsInv, TypeOK,
        ReportersTypeOK, RawImageLoaderTypeOK
<1>5. ClientsInv' /\ NamesInv' /\ FreedInv'
  BY DEF ClientsInv, NamesInv, FreedInv
<1> QED  BY <1>1, <1>2, <1>3, <1>4, <1>5

LEMMA NativeRaisesInv ==
    ASSUME IInv, NEW t \in Loaders, NativeRaises(t)
    PROVE  IInv'
<1> USE DEF IInv, NativeRaises, MayRaise, RaiseProgressStart
<1>1. TypeOK'
  <2>1. RawImageLoaderTypeOK'
    BY DEF TypeOK, RawImageLoaderTypeOK, ThreadsInv
  <2>2. pc' \in [Loaders -> ThreadPc]
    BY DEF TypeOK, ThreadPc
  <2>3. raised' \in [Loaders -> 0 .. MaxProgress]
    BY BoundAssumption DEF TypeOK
  <2> QED  BY <2>1, <2>2, <2>3 DEF TypeOK, ReportersTypeOK
<1>2. ThreadsInv'
  BY NullAssumption DEF ThreadsInv, ReportersInv, TypeOK, ReportersTypeOK,
        RawImageLoaderTypeOK, ThreadPc
<1>3. ReportersInv'
  BY NullAssumption DEF ReportersInv, ClientsInv, ThreadsInv, TypeOK,
        ReportersTypeOK, RawImageLoaderTypeOK
<1>4. ClientsInv' /\ NamesInv' /\ OwnersInv' /\ FreedInv'
  BY DEF ClientsInv, NamesInv, OwnersInv, FreedInv
<1> QED  BY <1>1, <1>2, <1>3, <1>4

LEMMA CallListenerInv ==
    ASSUME IInv, NEW t \in Loaders, NEW l \in Loaders, CallListener(t, l)
    PROVE  IInv'
<1> USE DEF IInv, CallListener, RaiseProgressCall
<1>1. TypeOK'
  <2>1. RawImageLoaderTypeOK'
    BY DEF TypeOK, RawImageLoaderTypeOK, ThreadsInv
  <2>2. pc' \in [Loaders -> ThreadPc]
    BY DEF TypeOK, ThreadPc
  <2> QED  BY <2>1, <2>2 DEF TypeOK, ReportersTypeOK
<1>2. ThreadsInv'
  BY NullAssumption DEF ThreadsInv, ReportersInv, TypeOK, ReportersTypeOK,
        RawImageLoaderTypeOK, ThreadPc
<1>3. ReportersInv'
  BY NullAssumption DEF ReportersInv, ClientsInv, ThreadsInv, TypeOK,
        ReportersTypeOK, RawImageLoaderTypeOK
<1>4. ClientsInv' /\ NamesInv' /\ OwnersInv' /\ FreedInv'
  BY DEF ClientsInv, NamesInv, OwnersInv, FreedInv
<1> QED  BY <1>1, <1>2, <1>3, <1>4

LEMMA RunListenerInv ==
    ASSUME IInv, NEW t \in Loaders, RunListener(t)
    PROVE  IInv'
<1> USE DEF IInv, RunListener, ReportProgress, ReporterRuns,
        CallReportEnter, CallReportNext, CallReportLeave, ReportersOf
<1>1. TypeOK'
  <2>1. ReportersTypeOK'
    BY DEF TypeOK, ReportersTypeOK, ThreadsInv, ClientsInv
  <2>2. pc' \in [Loaders -> ThreadPc]
    BY DEF TypeOK, ThreadPc
  <2>3. posted' \in [Clients -> Posts]
    BY ReporterPosts DEF TypeOK
  <2> QED  BY <2>1, <2>2, <2>3 DEF TypeOK, RawImageLoaderTypeOK
<1>2. ThreadsInv'
  BY NullAssumption DEF ThreadsInv, ReportersInv, TypeOK, ReportersTypeOK,
        RawImageLoaderTypeOK, ThreadPc
<1>3. ReportersInv'
  BY NullAssumption DEF ReportersInv, ClientsInv, ThreadsInv, TypeOK,
        ReportersTypeOK, RawImageLoaderTypeOK
<1>4. ClientsInv' /\ NamesInv' /\ OwnersInv' /\ FreedInv'
  BY DEF ClientsInv, NamesInv, OwnersInv, FreedInv
<1> QED  BY <1>1, <1>2, <1>3, <1>4

LEMMA EndRaiseInv ==
    ASSUME IInv, NEW t \in Loaders, EndRaise(t)
    PROVE  IInv'
<1> USE DEF IInv, EndRaise, RaiseProgressEnd
<1>1. TypeOK'
  <2>1. RawImageLoaderTypeOK'
    BY DEF TypeOK, RawImageLoaderTypeOK, ThreadsInv
  <2>2. pc' \in [Loaders -> ThreadPc]
    BY DEF TypeOK, ThreadPc
  <2> QED  BY <2>1, <2>2 DEF TypeOK, ReportersTypeOK
<1>2. ThreadsInv'
  BY NullAssumption DEF ThreadsInv, ReportersInv, TypeOK, ReportersTypeOK,
        RawImageLoaderTypeOK, ThreadPc
<1>3. ReportersInv'
  BY NullAssumption DEF ReportersInv, ClientsInv, ThreadsInv, TypeOK,
        ReportersTypeOK, RawImageLoaderTypeOK
<1>4. ClientsInv' /\ NamesInv' /\ OwnersInv' /\ FreedInv'
  BY DEF ClientsInv, NamesInv, OwnersInv, FreedInv
<1> QED  BY <1>1, <1>2, <1>3, <1>4

LEMMA RaiseThrowsInv ==
    ASSUME IInv, NEW t \in Loaders, RaiseThrows(t)
    PROVE  IInv'
<1> USE DEF IInv, RaiseThrows, RaiseProgressThrows, Uncaught
<1>1. TypeOK'
  <2>1. RawImageLoaderTypeOK'
    BY DEF TypeOK, RawImageLoaderTypeOK, ThreadsInv
  <2>2. pc' \in [Loaders -> ThreadPc] /\ alive' \in BOOLEAN
    BY DEF TypeOK, ThreadPc
  <2> QED  BY <2>1, <2>2 DEF TypeOK, ReportersTypeOK
<1>2. /\ pc' = pc \/ pc' = [pc EXCEPT ![t] = "killed"]
      /\ \A u \in Loaders : pc'[u] = pc[u] \/ (u = t /\ pc'[u] = "killed")
      /\ pc[t] \in {"raise", "native"}
  BY DEF TypeOK
<1> HIDE DEF Uncaught
<1>3. ThreadsInv'
  BY <1>2 DEF ThreadsInv, TypeOK, RawImageLoaderTypeOK
<1>4. ReportersInv'
  <2>1. \A u \in Loaders : monitor = u => u # t
    BY <1>2 DEF ReportersInv
  <2> QED  BY <1>2, <2>1 DEF ReportersInv
<1>5. ClientsInv' /\ NamesInv' /\ OwnersInv' /\ FreedInv'
  BY DEF ClientsInv, NamesInv, OwnersInv, FreedInv
<1> QED  BY <1>1, <1>3, <1>4, <1>5

LEMMA DecodedInv ==
    ASSUME IInv, NEW t \in Loaders, Decoded(t)
    PROVE  IInv'
<1> USE DEF IInv, Decoded
<1>1. TypeOK'
  <2>1. pc' \in [Loaders -> ThreadPc]
    BY DEF TypeOK, ThreadPc
  <2>2. raised' \in [Loaders -> 0 .. MaxProgress]
    BY BoundAssumption DEF TypeOK
  <2> QED  BY <2>1, <2>2 DEF TypeOK, ReportersTypeOK, RawImageLoaderTypeOK
<1>2. ThreadsInv'
  BY NullAssumption DEF ThreadsInv, ReportersInv, TypeOK, ReportersTypeOK,
        RawImageLoaderTypeOK, ThreadPc
<1>3. ReportersInv'
  BY NullAssumption DEF ReportersInv, ClientsInv, ThreadsInv, TypeOK,
        ReportersTypeOK, RawImageLoaderTypeOK
<1>4. ClientsInv' /\ NamesInv' /\ OwnersInv' /\ FreedInv'
  BY DEF ClientsInv, NamesInv, OwnersInv, FreedInv
<1> QED  BY <1>1, <1>2, <1>3, <1>4

LEMMA DecodeFailsInv ==
    ASSUME IInv, NEW t \in Loaders, DecodeFails(t)
    PROVE  IInv'
<1> USE DEF IInv, DecodeFails
<1>1. TypeOK'
  <2>1. pc' \in [Loaders -> ThreadPc]
    BY DEF TypeOK, ThreadPc
  <2>2. result' \in [Loaders -> Loaders \union {NULL, Failed}]
    BY DEF TypeOK, ThreadsInv, RawImageLoaderTypeOK
  <2>3. raised' \in [Loaders -> 0 .. MaxProgress]
    BY BoundAssumption DEF TypeOK
  <2> QED  BY <2>1, <2>2, <2>3 DEF TypeOK, ReportersTypeOK, RawImageLoaderTypeOK
<1>2. ThreadsInv'
  BY NullAssumption DEF ThreadsInv, ReportersInv, TypeOK, ReportersTypeOK,
        RawImageLoaderTypeOK, ThreadPc
<1>3. OwnersInv'
  BY NullAssumption DEF OwnersInv, ClientsInv, ThreadsInv, ReportersInv,
        TypeOK, ReportersTypeOK, RawImageLoaderTypeOK
<1>4. ReportersInv'
  BY NullAssumption DEF ReportersInv, ClientsInv, ThreadsInv, TypeOK,
        ReportersTypeOK, RawImageLoaderTypeOK
<1>5. ClientsInv' /\ NamesInv' /\ FreedInv'
  BY DEF ClientsInv, NamesInv, FreedInv
<1> QED  BY <1>1, <1>2, <1>3, <1>4, <1>5

LEMMA DecodeThrowsErrorInv ==
    ASSUME IInv, NEW t \in Loaders, DecodeThrowsError(t)
    PROVE  IInv'
<1> USE DEF IInv, DecodeThrowsError, Uncaught
<1>1. TypeOK'
  <2>1. pc' \in [Loaders -> ThreadPc] /\ alive' \in BOOLEAN
    BY DEF TypeOK, ThreadPc
  <2> QED  BY <2>1 DEF TypeOK, ReportersTypeOK, RawImageLoaderTypeOK
<1>2. /\ pc' = pc \/ pc' = [pc EXCEPT ![t] = "killed"]
      /\ \A u \in Loaders : pc'[u] = pc[u] \/ (u = t /\ pc'[u] = "killed")
      /\ pc[t] \in {"raise", "native"}
  BY DEF TypeOK
<1> HIDE DEF Uncaught
<1>3. ThreadsInv'
  BY <1>2 DEF ThreadsInv, TypeOK, RawImageLoaderTypeOK
<1>4. ReportersInv'
  <2>1. \A u \in Loaders : monitor = u => u # t
    BY <1>2 DEF ReportersInv
  <2> QED  BY <1>2, <2>1 DEF ReportersInv
<1>5. ClientsInv' /\ NamesInv' /\ OwnersInv' /\ FreedInv'
  BY DEF ClientsInv, NamesInv, OwnersInv, FreedInv
<1> QED  BY <1>1, <1>3, <1>4, <1>5

LEMMA AssignInv ==
    ASSUME IInv, NEW t \in Loaders, Assign(t)
    PROVE  IInv'
<1> USE DEF IInv, Assign, AssignBitmap
<1>1. TypeOK'
  <2>1. RawImageLoaderTypeOK'
    BY DEF TypeOK, RawImageLoaderTypeOK, ThreadsInv
  <2>2. pc' \in [Loaders -> ThreadPc]
    BY DEF TypeOK, ThreadPc
  <2> QED  BY <2>1, <2>2 DEF TypeOK, ReportersTypeOK
<1>2. ThreadsInv'
  BY NullAssumption DEF ThreadsInv, ReportersInv, TypeOK, ReportersTypeOK,
        RawImageLoaderTypeOK, ThreadPc
<1>3. OwnersInv'
  BY NullAssumption DEF OwnersInv, ClientsInv, ThreadsInv, ReportersInv,
        TypeOK, ReportersTypeOK, RawImageLoaderTypeOK
<1>4. ReportersInv'
  BY NullAssumption DEF ReportersInv, ClientsInv, ThreadsInv, TypeOK,
        ReportersTypeOK, RawImageLoaderTypeOK
<1>5. ClientsInv' /\ NamesInv' /\ FreedInv'
  BY DEF ClientsInv, NamesInv, FreedInv
<1> QED  BY <1>1, <1>2, <1>3, <1>4, <1>5

LEMMA UnlistenInv ==
    ASSUME IInv, NEW t \in Loaders, Unlisten(t)
    PROVE  IInv'
<1> USE DEF IInv, Unlisten, RemoveProgressListener, ChangeList
<1>1. TypeOK'
  <2>1. RawImageLoaderTypeOK'
    BY DEF TypeOK, RawImageLoaderTypeOK, ThreadsInv
  <2>2. pc' \in [Loaders -> ThreadPc]
    BY DEF TypeOK, ThreadPc
  <2> QED  BY <2>1, <2>2 DEF TypeOK, ReportersTypeOK
<1>2. ThreadsInv'
  BY NullAssumption DEF ThreadsInv, ReportersInv, TypeOK, ReportersTypeOK,
        RawImageLoaderTypeOK, ThreadPc
<1>3. ReportersInv'
  BY NullAssumption DEF ReportersInv, ClientsInv, ThreadsInv, TypeOK,
        ReportersTypeOK, RawImageLoaderTypeOK
<1>4. ClientsInv' /\ NamesInv' /\ OwnersInv' /\ FreedInv'
  BY DEF ClientsInv, NamesInv, OwnersInv, FreedInv
<1> QED  BY <1>1, <1>2, <1>3, <1>4

LEMMA SetLoadingErrorInv ==
    ASSUME IInv, NEW t \in Loaders, SetLoadingError(t)
    PROVE  IInv'
<1> USE DEF IInv, SetLoadingError
<1>1. TypeOK'
  <2>1. loadingStates' \in [Images -> LoadingState \union {NULL}]
    BY DEF TypeOK, ThreadsInv, LoadingState
  <2>2. pc' \in [Loaders -> ThreadPc]
    BY DEF TypeOK, ThreadPc
  <2> QED  BY <2>1, <2>2 DEF TypeOK, ReportersTypeOK, RawImageLoaderTypeOK
<1>2. ThreadsInv'
  BY NullAssumption DEF ThreadsInv, ReportersInv, TypeOK, ReportersTypeOK,
        RawImageLoaderTypeOK, ThreadPc
<1>3. ReportersInv'
  BY NullAssumption DEF ReportersInv, ClientsInv, ThreadsInv, TypeOK,
        ReportersTypeOK, RawImageLoaderTypeOK
<1>4. ClientsInv' /\ NamesInv' /\ OwnersInv' /\ FreedInv'
  BY DEF ClientsInv, NamesInv, OwnersInv, FreedInv
<1> QED  BY <1>1, <1>2, <1>3, <1>4

LEMMA SetLoadedInv ==
    ASSUME IInv, NEW t \in Loaders, SetLoaded(t)
    PROVE  IInv'
<1> USE DEF IInv, SetLoaded
<1>1. TypeOK'
  <2>1. loadingStates' \in [Images -> LoadingState \union {NULL}]
    BY DEF TypeOK, ThreadsInv, LoadingState
  <2>2. pc' \in [Loaders -> ThreadPc]
    BY DEF TypeOK, ThreadPc
  <2> QED  BY <2>1, <2>2 DEF TypeOK, ReportersTypeOK, RawImageLoaderTypeOK
<1>2. ThreadsInv'
  BY NullAssumption DEF ThreadsInv, ReportersInv, TypeOK, ReportersTypeOK,
        RawImageLoaderTypeOK, ThreadPc
<1>3. ReportersInv'
  BY NullAssumption DEF ReportersInv, ClientsInv, ThreadsInv, TypeOK,
        ReportersTypeOK, RawImageLoaderTypeOK
<1>4. ClientsInv' /\ NamesInv' /\ OwnersInv' /\ FreedInv'
  BY DEF ClientsInv, NamesInv, OwnersInv, FreedInv
<1> QED  BY <1>1, <1>2, <1>3, <1>4

LEMMA PutBitmapInv ==
    ASSUME IInv, NEW t \in Loaders, PutBitmap(t)
    PROVE  IInv'
<1> USE DEF IInv, PutBitmap
<1>1. TypeOK'
  <2>1. loadedBitmaps' \in [Images -> Loaders \union {NULL}]
    BY DEF TypeOK, ThreadsInv
  <2>2. pc' \in [Loaders -> ThreadPc]
    BY DEF TypeOK, ThreadPc
  <2> QED  BY <2>1, <2>2 DEF TypeOK, ReportersTypeOK, RawImageLoaderTypeOK
<1>2. ThreadsInv'
  BY NullAssumption DEF ThreadsInv, ReportersInv, TypeOK, ReportersTypeOK,
        RawImageLoaderTypeOK, ThreadPc
<1>3. OwnersInv'
  BY NullAssumption DEF OwnersInv, ClientsInv, ThreadsInv, ReportersInv,
        TypeOK, ReportersTypeOK, RawImageLoaderTypeOK
<1>4. ReportersInv'
  BY NullAssumption DEF ReportersInv, ClientsInv, ThreadsInv, TypeOK,
        ReportersTypeOK, RawImageLoaderTypeOK
<1>5. ClientsInv' /\ NamesInv' /\ FreedInv'
  BY DEF ClientsInv, NamesInv, FreedInv
<1> QED  BY <1>1, <1>2, <1>3, <1>4, <1>5

LEMMA ReportOutcomeInv ==
    ASSUME IInv, NEW t \in Loaders, ReportOutcome(t)
    PROVE  IInv'
<1> USE DEF IInv, ReportOutcome, ReporterRuns, CallReportEnter,
        CallReportNext, CallReportLeave, ReportersOf
<1>1. TypeOK'
  <2>1. ReportersTypeOK'
    BY DEF TypeOK, ReportersTypeOK, ThreadsInv, ClientsInv
  <2>2. pc' \in [Loaders -> ThreadPc]
    BY DEF TypeOK, ThreadPc
  <2>3. received' \in [Clients -> SUBSET (Loaders \union {NULL, Failed})]
    BY DEF TypeOK, ClientsInv, ThreadsInv
  <2>4. posted' \in [Clients -> Posts]
    BY ReporterPosts DEF TypeOK
  <2> QED  BY <2>1, <2>2, <2>3, <2>4 DEF TypeOK, RawImageLoaderTypeOK
<1>2. ClientsInv'
  BY NullAssumption DEF ClientsInv, ReportersInv, TypeOK, ReportersTypeOK,
        RawImageLoaderTypeOK
<1>3. ThreadsInv'
  BY NullAssumption DEF ThreadsInv, ReportersInv, TypeOK, ReportersTypeOK,
        RawImageLoaderTypeOK, ThreadPc
<1>4. OwnersInv'
  <2>1. CASE received' = received
    BY <2>1 DEF OwnersInv
  <2>2. ASSUME NEW c \in Clients, monitor = t, c \in toNotify,
               received' = [received EXCEPT ![c] = @ \union {result[t]}]
        PROVE  OwnersInv'
    <3>1. image[c] = target[t]
      BY <2>2 DEF ReportersInv
    <3>2. \A d \in Clients : \A b \in received'[d] :
              b \in received[d] \/ (d = c /\ b = result[t])
      BY <2>2 DEF TypeOK
    <3> QED  BY <3>1, <3>2 DEF OwnersInv
  <2> QED  BY <2>1, <2>2
<1>5. ReportersInv'
  BY NullAssumption DEF ReportersInv, ClientsInv, ThreadsInv, TypeOK,
        ReportersTypeOK, RawImageLoaderTypeOK
<1>6. NamesInv' /\ FreedInv'
  BY DEF NamesInv, FreedInv
<1> QED  BY <1>1, <1>2, <1>3, <1>4, <1>5, <1>6

LEMMA LoadImageStartsInv ==
    ASSUME IInv, NEW c \in Clients, NEW t \in Loaders, LoadImageStarts(c, t)
    PROVE  IInv'
<1> USE DEF IInv, LoadImageStarts, AddProgressListener, ChangeList
<1>1. TypeOK'
  <2>1. RawImageLoaderTypeOK'
    BY DEF TypeOK, RawImageLoaderTypeOK, ThreadsInv
  <2>2. pc' \in [Loaders -> ThreadPc]
    BY DEF TypeOK, ThreadPc
  <2>3. target' \in [Loaders -> Images \union {NULL}]
    BY DEF TypeOK, ClientsInv
  <2>4. ui' \in [step : UiStep, client : Clients \union {NULL}]
    BY DEF TypeOK, UiStep
  <2> QED  BY <2>1, <2>2, <2>3, <2>4 DEF TypeOK, ReportersTypeOK
<1>2. ClientsInv'
  BY NullAssumption DEF ClientsInv, ReportersInv, TypeOK, ReportersTypeOK,
        RawImageLoaderTypeOK
<1>3. ThreadsInv'
  <2>1. image[c] \in Images
    BY DEF ClientsInv
  <2>2. pc'[t] = "created" /\ target'[t] = image[c]
    BY DEF TypeOK
  <2>3. \A u \in Loaders : u # t => pc'[u] = pc[u] /\ target'[u] = target[u]
    BY DEF TypeOK
  <2> QED  BY <2>1, <2>2, <2>3 DEF ThreadsInv, TypeOK, RawImageLoaderTypeOK
<1>4. NamesInv'
  BY NullAssumption DEF NamesInv, ClientsInv, ThreadsInv, TypeOK,
        ReportersTypeOK, RawImageLoaderTypeOK
<1>5. OwnersInv'
  <2>1. target[t] \notin Images
    BY NullAssumption DEF ThreadsInv
  <2>2. \A u \in Loaders : target[u] \in Images => target'[u] = target[u]
    BY <2>1 DEF TypeOK
  <2> QED  BY <2>2 DEF OwnersInv, TypeOK
<1>6. ReportersInv'
  BY NullAssumption DEF ReportersInv, ClientsInv, ThreadsInv, TypeOK,
        ReportersTypeOK, RawImageLoaderTypeOK
<1>7. FreedInv'
  BY NullAssumption DEF FreedInv, ClientsInv, ThreadsInv, NamesInv, OwnersInv,
        TypeOK, ReportersTypeOK, RawImageLoaderTypeOK
<1> QED  BY <1>1, <1>2, <1>3, <1>4, <1>5, <1>6, <1>7

LEMMA StartThreadInv ==
    ASSUME IInv, NEW c \in Clients, NEW t \in Loaders, StartThread(c, t)
    PROVE  IInv'
<1> USE DEF IInv, StartThread, Add
<1>1. TypeOK'
  <2>1. ReportersTypeOK'
    BY DEF TypeOK, ReportersTypeOK, ThreadsInv, ClientsInv
  <2>2. pc' \in [Loaders -> ThreadPc]
    BY DEF TypeOK, ThreadPc
  <2>3. ui' \in [step : UiStep, client : Clients \union {NULL}]
    BY DEF TypeOK, UiStep
  <2> QED  BY <2>1, <2>2, <2>3 DEF TypeOK, RawImageLoaderTypeOK
<1>2. ClientsInv'
  BY NullAssumption DEF ClientsInv, ReportersInv, TypeOK, ReportersTypeOK,
        RawImageLoaderTypeOK
<1>3. ThreadsInv'
  BY NullAssumption DEF ThreadsInv, ReportersInv, TypeOK, ReportersTypeOK,
        RawImageLoaderTypeOK, ThreadPc
<1>4. ReportersInv'
  BY NullAssumption DEF ReportersInv, ClientsInv, ThreadsInv, TypeOK,
        ReportersTypeOK, RawImageLoaderTypeOK
<1>5. FreedInv'
  BY NullAssumption DEF FreedInv, ClientsInv, ThreadsInv, NamesInv, OwnersInv,
        TypeOK, ReportersTypeOK, RawImageLoaderTypeOK
<1>6. NamesInv' /\ OwnersInv'
  BY DEF NamesInv, OwnersInv
<1> QED  BY <1>1, <1>2, <1>3, <1>4, <1>5, <1>6

LEMMA LoadImageSkipsInv ==
    ASSUME IInv, NEW c \in Clients, LoadImageSkips(c)
    PROVE  IInv'
<1> USE DEF IInv, LoadImageSkips
<1>1. TypeOK'
  <2>1. ui' \in [step : UiStep, client : Clients \union {NULL}]
    BY DEF TypeOK, UiStep
  <2> QED  BY <2>1 DEF TypeOK, ReportersTypeOK, RawImageLoaderTypeOK
<1>2. ClientsInv'
  BY NullAssumption DEF ClientsInv, ReportersInv, TypeOK, ReportersTypeOK,
        RawImageLoaderTypeOK
<1>3. FreedInv'
  BY NullAssumption DEF FreedInv, ClientsInv, ThreadsInv, NamesInv, OwnersInv,
        TypeOK, ReportersTypeOK, RawImageLoaderTypeOK
<1>4. ThreadsInv' /\ NamesInv' /\ OwnersInv' /\ ReportersInv'
  BY DEF ThreadsInv, NamesInv, OwnersInv, ReportersInv
<1> QED  BY <1>1, <1>2, <1>3, <1>4

LEMMA TestInProgressInv ==
    ASSUME IInv, NEW c \in Clients, TestInProgress(c)
    PROVE  IInv'
<1> USE DEF IInv, TestInProgress
<1>1. TypeOK'
  <2>1. ui' \in [step : UiStep, client : Clients \union {NULL}]
    BY DEF TypeOK, UiStep
  <2> QED  BY <2>1 DEF TypeOK, ReportersTypeOK, RawImageLoaderTypeOK
<1>2. ClientsInv'
  BY NullAssumption DEF ClientsInv, ReportersInv, TypeOK, ReportersTypeOK,
        RawImageLoaderTypeOK
<1>3. FreedInv'
  BY NullAssumption DEF FreedInv, ClientsInv, ThreadsInv, NamesInv, OwnersInv,
        TypeOK, ReportersTypeOK, RawImageLoaderTypeOK
<1>4. ThreadsInv' /\ NamesInv' /\ OwnersInv' /\ ReportersInv'
  BY DEF ThreadsInv, NamesInv, OwnersInv, ReportersInv
<1> QED  BY <1>1, <1>2, <1>3, <1>4

LEMMA JoinInv ==
    ASSUME IInv, NEW c \in Clients, Join(c)
    PROVE  IInv'
<1> USE DEF IInv, Join, Add
<1>1. TypeOK'
  <2>1. ReportersTypeOK'
    BY DEF TypeOK, ReportersTypeOK, ThreadsInv, ClientsInv
  <2>2. ui' \in [step : UiStep, client : Clients \union {NULL}]
    BY DEF TypeOK, UiStep
  <2> QED  BY <2>1, <2>2 DEF TypeOK, RawImageLoaderTypeOK
<1>2. ClientsInv'
  BY NullAssumption DEF ClientsInv, ReportersInv, TypeOK, ReportersTypeOK,
        RawImageLoaderTypeOK
<1>3. ReportersInv'
  BY NullAssumption DEF ReportersInv, ClientsInv, ThreadsInv, TypeOK,
        ReportersTypeOK, RawImageLoaderTypeOK
<1>4. FreedInv'
  BY NullAssumption DEF FreedInv, ClientsInv, ThreadsInv, NamesInv, OwnersInv,
        TypeOK, ReportersTypeOK, RawImageLoaderTypeOK
<1>5. ThreadsInv' /\ NamesInv' /\ OwnersInv'
  BY DEF ThreadsInv, NamesInv, OwnersInv
<1> QED  BY <1>1, <1>2, <1>3, <1>4, <1>5

LEMMA TestLoadedInv ==
    ASSUME IInv, NEW c \in Clients, TestLoaded(c)
    PROVE  IInv'
<1> USE DEF IInv, TestLoaded
<1>1. TypeOK'
  <2>1. ui' \in [step : UiStep, client : Clients \union {NULL}]
    BY DEF TypeOK, UiStep
  <2>2. received' \in [Clients -> SUBSET (Loaders \union {NULL, Failed})]
    BY DEF TypeOK, ClientsInv, ThreadsInv
  <2>3. dialog' \in [Clients -> BOOLEAN]
    BY DEF TypeOK
  <2> QED  BY <2>1, <2>2, <2>3 DEF TypeOK, ReportersTypeOK,
        RawImageLoaderTypeOK
<1>2. image[c] \in Images /\ phase[c] = "loading" /\ UNCHANGED <<phase, image>>
  BY DEF ClientsInv
<1>3. \A d \in Clients : \A b \in received'[d] :
          b \in received[d] \/ (d = c /\ b = loadedBitmaps[image[c]])
  BY DEF TypeOK
<1>4. ClientsInv'
  <2>1. \A d \in Clients : phase[d] = "new" => received'[d] = received[d]
    BY <1>2 DEF TypeOK
  <2>2. ui' = [step |-> "return", client |-> c]
    OBVIOUS
  <2> QED  BY <1>2, <2>1, <2>2 DEF ClientsInv
<1>5. OwnersInv'
  BY <1>2, <1>3 DEF OwnersInv
<1>6. FreedInv'
  BY NullAssumption DEF FreedInv, ClientsInv, ThreadsInv, NamesInv, OwnersInv,
        TypeOK, ReportersTypeOK, RawImageLoaderTypeOK
<1>7. ThreadsInv' /\ NamesInv' /\ ReportersInv'
  BY DEF ThreadsInv, NamesInv, ReportersInv
<1> QED  BY <1>1, <1>4, <1>5, <1>6, <1>7

LEMMA ReturnInv ==
    ASSUME IInv, NEW c \in Clients, Return(c)
    PROVE  IInv'
<1> USE DEF IInv, Return
<1>1. TypeOK'
  <2>1. ui' \in [step : UiStep, client : Clients \union {NULL}]
    BY DEF TypeOK, UiStep
  <2>2. phase' \in [Clients -> ClientPhase]
    BY DEF TypeOK, ClientPhase
  <2>3. dialog' \in [Clients -> BOOLEAN]
    BY DEF TypeOK
  <2> QED  BY <2>1, <2>2, <2>3 DEF TypeOK, ReportersTypeOK,
        RawImageLoaderTypeOK
<1>2. ClientsInv'
  BY NullAssumption DEF ClientsInv, ReportersInv, TypeOK, ReportersTypeOK,
        RawImageLoaderTypeOK
<1>3. ReportersInv'
  BY NullAssumption DEF ReportersInv, ClientsInv, ThreadsInv, TypeOK,
        ReportersTypeOK, RawImageLoaderTypeOK
<1>4. FreedInv'
  BY NullAssumption DEF FreedInv, ClientsInv, ThreadsInv, NamesInv, OwnersInv,
        TypeOK, ReportersTypeOK, RawImageLoaderTypeOK
<1>5. ThreadsInv' /\ NamesInv' /\ OwnersInv'
  BY DEF ThreadsInv, NamesInv, OwnersInv
<1> QED  BY <1>1, <1>2, <1>3, <1>4, <1>5

LEMMA FreeForgottenInv ==
    ASSUME IInv, NEW c \in Clients, FreeForgotten(c)
    PROVE  IInv'
<1> USE DEF IInv, FreeForgotten, CanFree
<1>1. TypeOK'
  <2>1. loadedBitmaps' \in [Images -> Loaders \union {NULL}]
    BY DEF TypeOK, ThreadsInv
  <2>2. ui' \in [step : UiStep, client : Clients \union {NULL}]
    BY DEF TypeOK, UiStep
  <2>3. freed' \in SUBSET Loaders /\ alive' \in BOOLEAN
    <3>1. image[c] \in Images
      BY DEF ClientsInv
    <3>2. CASE CanFree(loadedBitmaps[image[c]])
      BY <3>1, <3>2 DEF TypeOK
    <3>3. CASE ~ CanFree(loadedBitmaps[image[c]])
      BY <3>3 DEF TypeOK
    <3> QED  BY <3>2, <3>3
  <2> QED  BY <2>1, <2>2, <2>3 DEF TypeOK, ReportersTypeOK,
        RawImageLoaderTypeOK
<1>2. ClientsInv'
  BY NullAssumption DEF ClientsInv, ReportersInv, TypeOK, ReportersTypeOK,
        RawImageLoaderTypeOK
<1>3. OwnersInv'
  <2>1. \A i \in Images : loadedBitmaps'[i] \in Loaders =>
                              loadedBitmaps'[i] = loadedBitmaps[i]
    BY NullAssumption DEF TypeOK
  <2> QED  BY <2>1 DEF OwnersInv
<1>4. FreedInv'
  <2>1. image[c] \in Images /\ ~ Registered(image[c])
    BY DEF ClientsInv, FreedInv
  <2>2. \A b \in freed' : b \in freed \/ b = loadedBitmaps[image[c]]
    OBVIOUS
  <2>3. loadedBitmaps[image[c]] \in Loaders =>
            target[loadedBitmaps[image[c]]] = image[c]
    BY <2>1 DEF OwnersInv
  <2>4. freed' \in SUBSET Loaders
    BY <1>1 DEF TypeOK
  <2> QED  BY <2>1, <2>2, <2>3, <2>4 DEF FreedInv
<1>5. ThreadsInv' /\ NamesInv' /\ ReportersInv'
  BY DEF ThreadsInv, NamesInv, ReportersInv
<1> QED  BY <1>1, <1>2, <1>3, <1>4, <1>5

LEMMA RunPostedInv ==
    ASSUME IInv, NEW c \in Clients, RunPosted(c)
    PROVE  IInv'
<1> USE DEF IInv, RunPosted, ShowProgress, ShowIsRefused, DismissProgress
<1>1. TypeOK'
  <2>1. posted' \in [Clients -> Posts]
    BY DEF TypeOK, Posts
  <2>2. dialog' \in [Clients -> BOOLEAN] /\ alive' \in BOOLEAN
    BY DEF TypeOK
  <2> QED  BY <2>1, <2>2 DEF TypeOK, ReportersTypeOK, RawImageLoaderTypeOK
<1>2. ClientsInv' /\ ThreadsInv' /\ NamesInv' /\ OwnersInv' /\ ReportersInv'
      /\ FreedInv'
  BY DEF ClientsInv, ThreadsInv, NamesInv, OwnersInv, ReportersInv, FreedInv
<1> QED  BY <1>1, <1>2

LEMMA RequestOrLoadImageInv ==
    ASSUME IInv, NEW c \in Clients, RequestOrLoadImage(c)
    PROVE  IInv'
<1> USE DEF IInv, RequestOrLoadImage, OpenKnown, OpenNew, CreateImageFromFile
<1>1. TypeOK'
  <2>1. RawImageLoaderTypeOK'
    BY DEF TypeOK, RawImageLoaderTypeOK, ThreadsInv
  <2>2. registry' \in [Files -> Images \union {NULL}]
    BY DEF TypeOK
  <2>3. loadingStates' \in [Images -> LoadingState \union {NULL}]
    BY DEF TypeOK, ThreadsInv, LoadingState
  <2>4. ui' \in [step : UiStep, client : Clients \union {NULL}]
    BY DEF TypeOK, UiStep
  <2>5. phase' \in [Clients -> ClientPhase]
    BY DEF TypeOK, ClientPhase
  <2>6. image' \in [Clients -> Images \union {NULL}]
    BY DEF TypeOK
  <2> QED  BY <2>1, <2>2, <2>3, <2>4, <2>5, <2>6 DEF TypeOK, ReportersTypeOK
<1>2. ClientsInv'
  BY NullAssumption DEF ClientsInv, ReportersInv, TypeOK, ReportersTypeOK,
        RawImageLoaderTypeOK
<1>3. NamesInv'
  <2>1. \A i \in Images : Exists(i) => imageFileNames'[i] = imageFileNames[i]
    BY DEF TypeOK, RawImageLoaderTypeOK
  <2>2. \A d \in Clients : d # c => image'[d] = image[d]
    BY DEF TypeOK
  <2>3. image'[c] \in Images /\ imageFileNames'[image'[c]] # NULL
    <3>1. CASE \E f \in Files : OpenKnown(c, f)
      BY <3>1, NullAssumption
         DEF NamesInv, TypeOK, RawImageLoaderTypeOK
    <3>2. CASE \E f \in Files, i \in Images : OpenNew(c, f, i)
      BY <3>2, NullAssumption DEF TypeOK, RawImageLoaderTypeOK
    <3> QED  BY <3>1, <3>2
  <2>4. \A f \in Files : registry'[f] \in Images =>
                             imageFileNames'[registry'[f]] = f
    <3>1. CASE \E f \in Files : OpenKnown(c, f)
      BY <3>1 DEF NamesInv
    <3>2. CASE \E f \in Files, i \in Images : OpenNew(c, f, i)
      BY <3>2, NullAssumption DEF NamesInv, TypeOK, RawImageLoaderTypeOK
    <3> QED  BY <3>1, <3>2
  <2> QED  BY <2>1, <2>2, <2>3, <2>4 DEF NamesInv
<1>4. OwnersInv'
  <2>1. received[c] = {}
    BY DEF ClientsInv
  <2>2. \A d \in Clients : d # c => image'[d] = image[d]
    BY DEF TypeOK
  <2> QED  BY <2>1, <2>2 DEF OwnersInv
<1>5. ReportersInv'
  BY NullAssumption DEF ReportersInv, ClientsInv, ThreadsInv, TypeOK,
        ReportersTypeOK, RawImageLoaderTypeOK
<1>6. FreedInv'
  BY NullAssumption DEF FreedInv, ClientsInv, ThreadsInv, NamesInv, OwnersInv,
        TypeOK, ReportersTypeOK, RawImageLoaderTypeOK
<1>7. ThreadsInv'
  BY DEF ThreadsInv
<1> QED  BY <1>1, <1>2, <1>3, <1>4, <1>5, <1>6, <1>7

LEMMA BackInv ==
    ASSUME IInv, NEW c \in Clients, Back(c)
    PROVE  IInv'
<1> USE DEF IInv, Back, Forget
<1>1. TypeOK'
  <2>1. registry' \in [Files -> Images \union {NULL}]
    BY DEF TypeOK
  <2>2. loadingStates' \in [Images -> LoadingState \union {NULL}]
    BY DEF TypeOK, ThreadsInv, LoadingState
  <2>3. ui' \in [step : UiStep, client : Clients \union {NULL}]
    BY DEF TypeOK, UiStep
  <2>4. phase' \in [Clients -> ClientPhase]
    BY DEF TypeOK, ClientPhase
  <2> QED  BY <2>1, <2>2, <2>3, <2>4 DEF TypeOK, ReportersTypeOK,
        RawImageLoaderTypeOK
<1>2. ClientsInv'
  BY NullAssumption DEF ClientsInv, ReportersInv, TypeOK, ReportersTypeOK,
        RawImageLoaderTypeOK
<1>3. NamesInv'
  BY NullAssumption DEF NamesInv, ClientsInv, ThreadsInv, TypeOK,
        ReportersTypeOK, RawImageLoaderTypeOK
<1>4. ReportersInv'
  BY NullAssumption DEF ReportersInv, ClientsInv, ThreadsInv, TypeOK,
        ReportersTypeOK, RawImageLoaderTypeOK
<1>5. FreedInv'
  <2>1. CASE \A f \in Files : registry[f] # image[c]
    BY <2>1, NullAssumption DEF FreedInv, TypeOK
  <2>2. ASSUME NEW f \in Files, registry[f] = image[c], Forget(f, image[c]),
               GoTo("forget", c)
        PROVE  FreedInv'
    <3>1. image[c] \in Images
      BY DEF ClientsInv
    <3>2. \A g \in Files : registry'[g] \in Images =>
                               registry'[g] = registry[g] /\ g # f
      BY <2>2, NullAssumption DEF TypeOK
    <3>3. \A g \in Files : registry[g] = image[c] => g = f
      BY <2>2, <3>1 DEF NamesInv
    <3>4. ~ Registered(image[c])'
      BY <3>1, <3>2, <3>3
    <3>5. \A b \in freed : target[b] \in Images /\ ~ Registered(target[b])'
      BY <3>2 DEF FreedInv
    <3> QED  BY <2>2, <3>4, <3>5 DEF FreedInv
  <2> QED  BY <2>1, <2>2
<1>6. ThreadsInv' /\ OwnersInv'
  BY DEF ThreadsInv, OwnersInv
<1> QED  BY <1>1, <1>2, <1>3, <1>4, <1>5, <1>6

LEMMA DestroyInv ==
    ASSUME IInv, NEW c \in Clients, Destroy(c)
    PROVE  IInv'
<1> USE DEF IInv, Destroy, Remove
<1>1. TypeOK'
  <2>1. ReportersTypeOK'
    BY DEF TypeOK, ReportersTypeOK, ThreadsInv, ClientsInv
  <2>2. phase' \in [Clients -> ClientPhase]
    BY DEF TypeOK, ClientPhase
  <2>3. dialog' \in [Clients -> BOOLEAN]
    BY DEF TypeOK
  <2> QED  BY <2>1, <2>2, <2>3 DEF TypeOK, RawImageLoaderTypeOK
<1>2. ClientsInv'
  BY NullAssumption DEF ClientsInv, ReportersInv, TypeOK, ReportersTypeOK,
        RawImageLoaderTypeOK
<1>3. ReportersInv'
  BY NullAssumption DEF ReportersInv, ClientsInv, ThreadsInv, TypeOK,
        ReportersTypeOK, RawImageLoaderTypeOK
<1>4. ThreadsInv' /\ NamesInv' /\ OwnersInv' /\ FreedInv'
  BY DEF ThreadsInv, NamesInv, OwnersInv, FreedInv
<1> QED  BY <1>1, <1>2, <1>3, <1>4

-----------------------------------------------------------------------------
(* The theorems.                                                           *)

LEMMA InitInv == Init => IInv
<1> SUFFICES ASSUME Init PROVE IInv
  OBVIOUS
<1> USE DEF Init, ReportersInit, RawImageLoaderInit
<1>1. TypeOK
  <2>1. posted \in [Clients -> Posts]
    BY DEF Posts
  <2> QED  BY <2>1, BoundAssumption DEF TypeOK, ReportersTypeOK,
        RawImageLoaderTypeOK, ThreadPc, UiStep, ClientPhase
<1>2. ClientsInv /\ ThreadsInv /\ NamesInv
  BY NullAssumption DEF ClientsInv, ThreadsInv, NamesInv
<1>3. OwnersInv /\ ReportersInv /\ FreedInv
  BY NullAssumption DEF OwnersInv, ReportersInv, FreedInv
<1> QED  BY <1>1, <1>2, <1>3 DEF IInv

LEMMA LoaderStepInv ==
    ASSUME IInv, NEW t \in Loaders, LoaderStep(t)
    PROVE  IInv'
<1>1. CASE ReportZero(t)
  BY <1>1, ReportZeroInv
<1>2. CASE Begin(t)
  BY <1>2, BeginInv
<1>3. CASE GetBitmap(t)
  BY <1>3, GetBitmapInv
<1>4. CASE NativeRaises(t)
  BY <1>4, NativeRaisesInv
<1>5. CASE \E l \in Loaders : CallListener(t, l)
  BY <1>5, CallListenerInv
<1>6. CASE RunListener(t)
  BY <1>6, RunListenerInv
<1>7. CASE EndRaise(t)
  BY <1>7, EndRaiseInv
<1>8. CASE RaiseThrows(t)
  BY <1>8, RaiseThrowsInv
<1>9. CASE Decoded(t)
  BY <1>9, DecodedInv
<1>10. CASE DecodeFails(t)
  BY <1>10, DecodeFailsInv
<1>11. CASE Assign(t)
  BY <1>11, AssignInv
<1>12. CASE Unlisten(t)
  BY <1>12, UnlistenInv
<1>13. CASE SetLoadingError(t)
  BY <1>13, SetLoadingErrorInv
<1>14. CASE SetLoaded(t)
  BY <1>14, SetLoadedInv
<1>15. CASE PutBitmap(t)
  BY <1>15, PutBitmapInv
<1>16. CASE ReportOutcome(t)
  BY <1>16, ReportOutcomeInv
<1>17. CASE DecodeThrowsError(t)
  BY <1>17, DecodeThrowsErrorInv
<1> QED  BY <1>1, <1>2, <1>3, <1>4, <1>5, <1>6, <1>7, <1>8, <1>9, <1>10,
            <1>11, <1>12, <1>13, <1>14, <1>15, <1>16, <1>17 DEF LoaderStep

LEMMA UiStepInv ==
    ASSUME IInv, NEW c \in Clients, UiContinues(c) \/ User(c)
    PROVE  IInv'
<1>1. CASE \E t \in Loaders : LoadImageStarts(c, t)
  BY <1>1, LoadImageStartsInv
<1>2. CASE \E t \in Loaders : StartThread(c, t)
  BY <1>2, StartThreadInv
<1>3. CASE LoadImageSkips(c)
  BY <1>3, LoadImageSkipsInv
<1>4. CASE TestInProgress(c)
  BY <1>4, TestInProgressInv
<1>5. CASE Join(c)
  BY <1>5, JoinInv
<1>6. CASE TestLoaded(c)
  BY <1>6, TestLoadedInv
<1>7. CASE Return(c)
  BY <1>7, ReturnInv
<1>8. CASE FreeForgotten(c)
  BY <1>8, FreeForgottenInv
<1>9. CASE RequestOrLoadImage(c)
  BY <1>9, RequestOrLoadImageInv
<1>10. CASE Back(c)
  BY <1>10, BackInv
<1>11. CASE Destroy(c)
  BY <1>11, DestroyInv
<1>12. CASE RunPosted(c)
  BY <1>12, RunPostedInv
<1> QED  BY <1>1, <1>2, <1>3, <1>4, <1>5, <1>6, <1>7, <1>8, <1>9, <1>10,
            <1>11, <1>12 DEF UiContinues, User

LEMMA StutterInv == IInv /\ UNCHANGED vars => IInv'
<1> SUFFICES ASSUME IInv, UNCHANGED vars PROVE IInv'
  OBVIOUS
<1>1. TypeOK'
  BY DEF IInv, TypeOK, ReportersTypeOK, RawImageLoaderTypeOK
<1>2. ClientsInv' /\ ThreadsInv' /\ NamesInv'
  BY DEF IInv, ClientsInv, ThreadsInv, NamesInv
<1>3. OwnersInv' /\ ReportersInv' /\ FreedInv'
  BY DEF IInv, OwnersInv, ReportersInv, FreedInv
<1> QED  BY <1>1, <1>2, <1>3 DEF IInv

LEMMA StepInv == IInv /\ [Next]_vars => IInv'
<1> SUFFICES ASSUME IInv, [Next]_vars PROVE IInv'
  OBVIOUS
<1>1. CASE \E t \in Loaders : LoaderStep(t)
  BY <1>1, LoaderStepInv
<1>2. CASE \E c \in Clients : UiContinues(c) \/ User(c)
  BY <1>2, UiStepInv
<1>3. CASE UNCHANGED vars
  BY <1>3, StutterInv
<1> QED  BY <1>1, <1>2, <1>3 DEF Next

THEOREM Invariance == Spec => []IInv
  BY InitInv, StepInv, PTL DEF Spec

(* Every variable stays in its type; in particular no Failed result is     *)
(* ever put into loadedBitmaps.                                            *)
THEOREM TypeCorrect == Spec => []TypeOK
<1>1. IInv => TypeOK
  BY DEF IInv
<1> QED  BY <1>1, Invariance, PTL

(* However many loads of however many files run, fail and double up, and   *)
(* whatever is forgotten, the registry and the clients of a registered     *)
(* image hold no freed bitmap.                                             *)
THEOREM FreedIsForgotten == Spec => []RegisteredBitmapsAreLive
<1>1. IInv => RegisteredBitmapsAreLive
  <2> SUFFICES ASSUME IInv PROVE RegisteredBitmapsAreLive
    OBVIOUS
  <2>1. ASSUME NEW i \in Images, Registered(i)
        PROVE  loadedBitmaps[i] \notin freed
    BY <2>1 DEF IInv, TypeOK, OwnersInv, FreedInv
  <2>2. ASSUME NEW c \in Clients, Registered(image[c])
        PROVE  received[c] \cap freed = {}
    BY <2>2 DEF IInv, TypeOK, OwnersInv, FreedInv
  <2> QED  BY <2>1, <2>2 DEF RegisteredBitmapsAreLive
<1> QED  BY <1>1, Invariance, PTL

(* A client is given only bitmaps of its own file.                         *)
THEOREM OwnImageOnly == Spec => []SuccessIsOwnImage
<1>1. IInv => SuccessIsOwnImage
  BY DEF IInv, OwnersInv, SuccessIsOwnImage
<1> QED  BY <1>1, Invariance, PTL

(* A removed reporter is not called again, whatever it still has posted.   *)
THEOREM SilentAfterUnregister == Spec => NoCallbackAfterUnregister
<1> DEFINE Silent(c) == /\ received'[c] = received[c]
                        /\ Len(posted'[c]) <= Len(posted[c])
<1>1. IInv /\ [Next]_vars =>
          [\A c \in Clients : phase[c] = "gone" => Silent(c)]_vars
  <2> SUFFICES ASSUME IInv, [Next]_vars, NEW d \in Clients, phase[d] = "gone"
               PROVE  Silent(d)
    OBVIOUS
  <2> USE DEF IInv
  <2>1. d \notin toNotify
    BY DEF ReportersInv
  <2>2. posted[d] \in Posts /\ Len(posted[d]) \in Nat
    BY DEF TypeOK, Posts
  <2>3. received' = received /\ posted' = posted => Silent(d)
    BY <2>2
  <2>4. CASE UNCHANGED vars
    BY <2>3, <2>4
  <2>5. ASSUME NEW c \in Clients, NEW work, c # d, ReporterRuns(c, work)
         PROVE  posted'[d] = posted[d]
    BY <2>5 DEF ReporterRuns, TypeOK
  <2>6. ASSUME NEW t \in Loaders, NEW i, NEW before, NEW after,
               ReportProgress(t, i, before, after)
        PROVE  received' = received /\ posted'[d] = posted[d]
    BY <2>1, <2>5, <2>6 DEF ReportProgress, CallReportNext
  <2>7. ASSUME NEW t \in Loaders, ReportOutcome(t)
        PROVE  received'[d] = received[d] /\ posted'[d] = posted[d]
    BY <2>1, <2>5, <2>7 DEF ReportOutcome, CallReportNext, TypeOK
  <2>8. ASSUME NEW t \in Loaders, LoaderStep(t)
        PROVE  Silent(d)
    <3>1. CASE ReportZero(t) \/ RunListener(t) \/ ReportOutcome(t)
      BY <2>2, <2>6, <2>7, <3>1 DEF ReportZero, RunListener
    <3>2. CASE ~ (ReportZero(t) \/ RunListener(t) \/ ReportOutcome(t))
      <4>1. received' = received /\ posted' = posted
        BY <2>8, <3>2
           DEF LoaderStep, Begin, GetBitmap, NativeRaises, CallListener,
               EndRaise, RaiseThrows, Decoded, DecodeFails, DecodeThrowsError,
               Assign, Unlisten, SetLoadingError, SetLoaded, PutBitmap
      <4> QED  BY <2>3, <4>1
    <3> QED  BY <3>1, <3>2
  <2>9. ASSUME NEW c \in Clients, TestLoaded(c)
        PROVE  Silent(d)
    <3>1. c # d
      BY <2>9 DEF TestLoaded, ClientsInv
    <3>2. received'[d] = received[d] /\ posted' = posted
      BY <2>9, <3>1 DEF TestLoaded, TypeOK
    <3> QED  BY <2>2, <3>2
  <2>10. ASSUME NEW c \in Clients, RunPosted(c)
        PROVE  Silent(d)
    <3>1. received' = received /\ posted' = [posted EXCEPT ![c] = Tail(@)]
      BY <2>10 DEF RunPosted
    <3>2. posted[c] \in Posts /\ posted[c] # <<>>
      BY <2>10 DEF RunPosted, TypeOK
    <3>3. Len(Tail(posted[c])) <= Len(posted[c])
      BY <3>2 DEF Posts
    <3> QED  BY <2>2, <3>1, <3>3 DEF TypeOK
  <2>11. ASSUME NEW c \in Clients, UiContinues(c)
         PROVE  Silent(d)
    <3>1. CASE TestLoaded(c) \/ RunPosted(c)
      BY <2>9, <2>10, <3>1
    <3>2. CASE ~ (TestLoaded(c) \/ RunPosted(c))
      <4>1. received' = received /\ posted' = posted
        BY <2>11, <3>2
           DEF UiContinues, LoadImageStarts, StartThread, LoadImageSkips,
               TestInProgress, Join, Return, FreeForgotten
      <4> QED  BY <2>3, <4>1
    <3> QED  BY <3>1, <3>2
  <2>12. ASSUME NEW c \in Clients, User(c)
         PROVE  Silent(d)
    <3>1. received' = received /\ posted' = posted
      BY <2>12 DEF User, RequestOrLoadImage, Back, Destroy
    <3> QED  BY <2>3, <3>1
  <2> QED  BY <2>4, <2>8, <2>11, <2>12 DEF Next
<1> QED  BY <1>1, Invariance, PTL DEF Spec, NoCallbackAfterUnregister
=============================================================================
