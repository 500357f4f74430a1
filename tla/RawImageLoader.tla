--------------------------- MODULE RawImageLoader ---------------------------
(***************************************************************************)
(* com.cateye.core.jni.RawImageLoader and the `bitmap` field of RawImage:  *)
(* the file name of every RawImage, the list of progress listeners, and    *)
(* raiseProgress, which native code calls back while it decodes.           *)
(*                                                                         *)
(* The listener list is a plain ArrayList that the UI thread and all the   *)
(* loader threads change and iterate without a lock.  An iteration that    *)
(* another thread's add or remove overtakes is stale: its next step may go *)
(* on with the elements it saw, end early, or throw                        *)
(* ConcurrentModificationException, depending on what the racing thread    *)
(* sees of the list.                                                       *)
(*                                                                         *)
(* Every load makes one listener and one native bitmap, so a listener and  *)
(* a PreciseBitmap are both named by the loader thread they belong to.     *)
(***************************************************************************)
EXTENDS CatEyeObjects

VARIABLES
    imageFileNames,     \* image -> its file; NULL: the object does not exist
    bitmap,             \* image -> RawImage.bitmap
    progressListeners,  \* the listeners in the list
    toCall,             \* thread -> the listeners its raiseProgress has ahead
    calling,            \* thread -> the listener its raiseProgress called last
    stale               \* the threads whose iteration was overtaken

iterationVars == <<toCall, calling, stale>>
loaderVars == <<imageFileNames, bitmap, progressListeners, iterationVars>>

RawImageLoaderTypeOK ==
    /\ imageFileNames \in [Images -> Files \union {NULL}]
    /\ bitmap \in [Images -> Loaders \union {NULL}]
    /\ progressListeners \in SUBSET Loaders
    /\ toCall \in [Loaders -> SUBSET Loaders]
    /\ calling \in [Loaders -> Loaders \union {NULL}]
    /\ stale \in SUBSET Loaders

RawImageLoaderInit ==
    /\ imageFileNames = [i \in Images |-> NULL]
    /\ bitmap = [i \in Images |-> NULL]
    /\ progressListeners = {}
    /\ toCall = [t \in Loaders |-> {}]
    /\ calling = [t \in Loaders |-> NULL]
    /\ stale = {}

Exists(i) == imageFileNames[i] # NULL

CreateImageFromFile(i, f) ==
    /\ ~ Exists(i)
    /\ imageFileNames' = [imageFileNames EXCEPT ![i] = f]
    /\ UNCHANGED <<bitmap, progressListeners, iterationVars>>

(* A structural change of the list overtakes every iteration under way.    *)
Iterating(t) == toCall[t] # {} \/ calling[t] # NULL

ChangeList(listeners) ==
    /\ progressListeners' = listeners
    /\ stale' = stale \union {t \in Loaders : Iterating(t)}
    /\ UNCHANGED <<imageFileNames, bitmap, toCall, calling>>

AddProgressListener(l) == ChangeList(progressListeners \union {l})

RemoveNoProgressListener(l) == UNCHANGED loaderVars
RemoveProgressListener(l) == ChangeList(progressListeners \ {l})

(* raiseProgress by thread t: the loop starts, calls a listener, goes on   *)
(* after the call returned, ends, or throws.                               *)
RaiseProgressStart(t) ==
    /\ toCall' = [toCall EXCEPT ![t] = progressListeners]
    /\ UNCHANGED <<imageFileNames, bitmap, progressListeners, calling, stale>>

RaiseProgressCall(t, l) ==
    /\ l \in toCall[t]
    /\ toCall' = [toCall EXCEPT ![t] = @ \ {l}]
    /\ calling' = [calling EXCEPT ![t] = l]
    /\ UNCHANGED <<imageFileNames, bitmap, progressListeners, stale>>

RaiseProgressEnd(t) ==
    /\ toCall[t] = {} \/ t \in stale
    /\ toCall' = [toCall EXCEPT ![t] = {}]
    /\ calling' = [calling EXCEPT ![t] = NULL]
    /\ stale' = stale \ {t}
    /\ UNCHANGED <<imageFileNames, bitmap, progressListeners>>

RaiseProgressThrows(t) ==
    /\ t \in stale
    /\ toCall' = [toCall EXCEPT ![t] = {}]
    /\ calling' = [calling EXCEPT ![t] = NULL]
    /\ stale' = stale \ {t}
    /\ UNCHANGED <<imageFileNames, bitmap, progressListeners>>

(* RawImage.getBitmap has no lock: the null test and the assignment are    *)
(* separate steps, with the whole decoding between them.                   *)
AssignBitmap(i, b) ==
    /\ bitmap' = [bitmap EXCEPT ![i] = b]
    /\ UNCHANGED <<imageFileNames, progressListeners, iterationVars>>
=============================================================================
