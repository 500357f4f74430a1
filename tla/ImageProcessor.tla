--------------------------- MODULE ImageProcessor ---------------------------
(***************************************************************************)
(* com.cateye.ui.ImageProcessor: copies a bitmap and compresses the copy,  *)
(* in a new thread (startProcessingAsync) or in the caller's               *)
(* (processImage), and tells a reporter.                                   *)
(*                                                                         *)
(* startProcessingAsync and processImage are synchronized and test         *)
(* `state`, but it is doProcessing, in the new thread and without the      *)
(* lock, that sets it.  Fields are plain.  A call is named by a member of  *)
(* Calls, and so are its thread, its reporter and the copy it makes.       *)
(***************************************************************************)
EXTENDS FiniteSets

CONSTANTS
    Calls,          \* calls of startProcessingAsync and processImage
    NULL

ASSUME CallsAssumption == NULL \notin Calls

VARIABLES
    state,                  \* ImageProcessor.state
    resultPreciseBitmap,    \* the field: a copy, or NULL
    reporters,              \* the calls whose reporter is in the list
    lock,                   \* the processImage call inside the monitor
    step,                   \* call -> where its doProcessing is
    work,                   \* call -> the bitmap its native code works on
    toReport,               \* call -> reporters its for-each has ahead
    overtaken,              \* calls whose for-each another call's clear hit
    agreed,                 \* call -> no reporter returned false so far
    freedCopies,            \* copies whose native memory was freed
    reported,               \* call -> bitmaps its reporter got as a result
    overlapped              \* history: two calls were under way together

processorVars == <<state, resultPreciseBitmap, reporters, lock, step, work,
                   toReport, overtaken, agreed, freedCopies, reported, overlapped>>

Steps == {"new", "refused", "started", "free", "copy", "process", "native",
          "raise", "raiseLast", "drawn", "report", "finish", "done", "dead"}

ProcessorTypeOK ==
    /\ state \in {"Idle", "Working"}
    /\ resultPreciseBitmap \in Calls \union {NULL}
    /\ reporters \in SUBSET Calls
    /\ lock \in Calls \union {NULL}
    /\ step \in [Calls -> Steps]
    /\ work \in [Calls -> Calls \union {NULL}]
    /\ toReport \in [Calls -> SUBSET Calls]
    /\ overtaken \in SUBSET Calls
    /\ agreed \in [Calls -> BOOLEAN]
    /\ freedCopies \in SUBSET Calls
    /\ reported \in [Calls -> SUBSET Calls]
    /\ overlapped \in BOOLEAN

ProcessorInit ==
    /\ state = "Idle"
    /\ resultPreciseBitmap = NULL
    /\ reporters = {}
    /\ lock = NULL
    /\ step = [j \in Calls |-> "new"]
    /\ work = [j \in Calls |-> NULL]
    /\ toReport = [j \in Calls |-> {}]
    /\ overtaken = {}
    /\ agreed = [j \in Calls |-> TRUE]
    /\ freedCopies = {}
    /\ reported = [j \in Calls |-> {}]
    /\ overlapped = FALSE

At(j, where) == step[j] = where
Go(j, where) == step' = [step EXCEPT ![j] = where]

Over(j) == step[j] \in {"new", "refused", "done", "dead"}
MayCall(j) == At(j, "new") /\ lock = NULL

NoteOverlap == overlapped' = (overlapped \/ \E k \in Calls : ~ Over(k))

(* An exception leaves doProcessing: `state` stays as it is, there is no   *)
(* finally; only the monitor is given back.                                *)
Die(j) ==
    /\ Go(j, "dead")
    /\ lock' = IF lock = j THEN NULL ELSE lock

-----------------------------------------------------------------------------
(* The calls.                                                              *)

InLoop(j) == step[j] \in {"raise", "raiseLast", "report"}

AddReporters(list) ==
    /\ reporters' = reporters \union list
    /\ overtaken' = overtaken \union {k \in Calls : InLoop(k)}
SetReporters(list) ==
    /\ reporters' = list
    /\ overtaken' = overtaken \union {k \in Calls : InLoop(k)}

StartProcessingAsync(j) ==
    /\ MayCall(j)
    /\ state = "Idle"
    /\ NoteOverlap
    /\ SetReporters({j})
    /\ Go(j, "started")
    /\ UNCHANGED <<state, resultPreciseBitmap, lock, work, toReport, agreed,
                   freedCopies, reported>>

ProcessImage(j) ==
    /\ MayCall(j)
    /\ state = "Idle"
    /\ NoteOverlap
    /\ SetReporters({})
    /\ lock' = j
    /\ Go(j, "started")
    /\ UNCHANGED <<state, resultPreciseBitmap, work, toReport, agreed,
                   freedCopies, reported>>

Refuse(j) ==
    /\ MayCall(j)
    /\ state = "Working"
    /\ Go(j, "refused")
    /\ UNCHANGED <<state, resultPreciseBitmap, reporters, lock, work,
                   toReport, overtaken, agreed, freedCopies, reported,
                   overlapped>>

-----------------------------------------------------------------------------
(* doProcessing.                                                           *)

SetWorking(j) ==
    /\ At(j, "started")
    /\ state' = "Working"
    /\ Go(j, "free")
    /\ UNCHANGED <<resultPreciseBitmap, reporters, lock, work, toReport,
                   overtaken, agreed, freedCopies, reported, overlapped>>

FreePrevious(j) ==
    /\ At(j, "free")
    /\ \/ /\ resultPreciseBitmap = NULL
          /\ Go(j, "copy")
          /\ UNCHANGED <<freedCopies, lock>>
       \/ /\ resultPreciseBitmap \notin freedCopies \union {NULL}
          /\ freedCopies' = freedCopies \union {resultPreciseBitmap}
          /\ Go(j, "copy")
          /\ UNCHANGED lock
       \/ /\ resultPreciseBitmap \in freedCopies
          /\ Die(j)
          /\ UNCHANGED freedCopies
    /\ UNCHANGED <<state, resultPreciseBitmap, reporters, work, toReport,
                   overtaken, agreed, reported, overlapped>>

KeepPrevious(j) ==
    /\ At(j, "copy")
    /\ Go(j, "process")
    /\ UNCHANGED <<state, resultPreciseBitmap, reporters, lock, work,
                   toReport, overtaken, agreed, freedCopies, reported,
                   overlapped>>
Copy(j) ==
    /\ At(j, "copy")
    /\ resultPreciseBitmap' = j
    /\ Go(j, "process")
    /\ UNCHANGED <<state, reporters, lock, work, toReport, overtaken, agreed,
                   freedCopies, reported, overlapped>>

(* No memory for the copy, or nothing to copy: copy() throws.              *)
CopyThrows(j) ==
    /\ At(j, "copy")
    /\ Die(j)
    /\ UNCHANGED <<state, resultPreciseBitmap, reporters, work, toReport,
                   overtaken, agreed, freedCopies, reported, overlapped>>

(* The field is read again for the argument of process().                  *)
CallProcess(j) ==
    /\ At(j, "process")
    /\ work' = [work EXCEPT ![j] = resultPreciseBitmap]
    /\ Go(j, "native")
    /\ UNCHANGED <<state, resultPreciseBitmap, reporters, lock, toReport,
                   overtaken, agreed, freedCopies, reported, overlapped>>

(* The native code reports progress any number of times and goes on unless *)
(* the listener returned false; it does not look at the answer to its last *)
(* report.                                                                 *)

StartLoop(j, where) ==
    /\ toReport' = [toReport EXCEPT ![j] = reporters]
    /\ overtaken' = overtaken \ {j}
    /\ Go(j, where)

ReportProgressStart(j) ==
    /\ At(j, "native")
    /\ StartLoop(j, "raise")
    /\ UNCHANGED <<state, resultPreciseBitmap, reporters, lock, work, agreed,
                   freedCopies, reported, overlapped>>

LastReport(j) ==
    /\ At(j, "native")
    /\ StartLoop(j, "raiseLast")
    /\ UNCHANGED <<state, resultPreciseBitmap, reporters, lock, work, agreed,
                   freedCopies, reported, overlapped>>

CallReporter(j, k, answer) ==
    /\ step[j] \in {"raise", "raiseLast"}
    /\ k \in toReport[j]
    /\ toReport' = [toReport EXCEPT ![j] = @ \ {k}]
    /\ agreed' = [agreed EXCEPT ![j] = @ /\ answer]
    /\ UNCHANGED <<state, resultPreciseBitmap, reporters, lock, step, work,
                   overtaken, freedCopies, reported, overlapped>>

(* A loop over the list ends after its last element; one that a clear      *)
(* overtook may end early.                                                 *)
LoopEnds(j) == toReport[j] = {} \/ j \in overtaken

GoOnAfterReport(j) == IF At(j, "raiseLast") THEN "drawn" ELSE "native"
AfterReport(j) ==
    CASE At(j, "raiseLast") -> "drawn"
      [] At(j, "raise") /\ agreed[j] -> "native"
      [] At(j, "raise") /\ ~ agreed[j] -> "finish"

ReportProgressEnd(j) ==
    /\ step[j] \in {"raise", "raiseLast"}
    /\ LoopEnds(j)
    /\ toReport' = [toReport EXCEPT ![j] = {}]
    /\ Go(j, AfterReport(j))
    /\ UNCHANGED <<state, resultPreciseBitmap, reporters, lock, work,
                   overtaken, agreed, freedCopies, reported, overlapped>>

(* process() returns true.                                                 *)
ProcessReturns(j) ==
    /\ At(j, "drawn")
    /\ StartLoop(j, "report")
    /\ UNCHANGED <<state, resultPreciseBitmap, reporters, lock, work, agreed,
                   freedCopies, reported, overlapped>>

ReportResult(j, k) ==
    /\ At(j, "report")
    /\ k \in toReport[j]
    /\ toReport' = [toReport EXCEPT ![j] = @ \ {k}]
    /\ reported' = [reported EXCEPT ![k] = @ \union ({resultPreciseBitmap} \ {NULL})]
    /\ UNCHANGED <<state, resultPreciseBitmap, reporters, lock, step, work,
                   overtaken, agreed, freedCopies, overlapped>>

ReportEnd(j) ==
    /\ At(j, "report")
    /\ LoopEnds(j)
    /\ toReport' = [toReport EXCEPT ![j] = {}]
    /\ Go(j, "finish")
    /\ UNCHANGED <<state, resultPreciseBitmap, reporters, lock, work,
                   overtaken, agreed, freedCopies, reported, overlapped>>

(* ConcurrentModificationException in either loop.                         *)
LoopThrows(j) ==
    /\ InLoop(j)
    /\ j \in overtaken
    /\ Die(j)
    /\ UNCHANGED <<state, resultPreciseBitmap, reporters, work, toReport,
                   overtaken, agreed, freedCopies, reported, overlapped>>

StayWorking(j) ==
    /\ At(j, "finish")
    /\ Go(j, "done")
    /\ lock' = IF lock = j THEN NULL ELSE lock
    /\ UNCHANGED <<state, resultPreciseBitmap, reporters, work, toReport,
                   overtaken, agreed, freedCopies, reported, overlapped>>
SetIdle(j) ==
    /\ At(j, "finish")
    /\ state' = "Idle"
    /\ Go(j, "done")
    /\ lock' = IF lock = j THEN NULL ELSE lock
    /\ UNCHANGED <<resultPreciseBitmap, reporters, work, toReport, overtaken,
                   agreed, freedCopies, reported, overlapped>>

(* The steps of doProcessing that call no reporter.                        *)
DoProcessing(j) ==
    \/ SetWorking(j)
    \/ FreePrevious(j)
    \/ Copy(j) \/ CopyThrows(j)
    \/ CallProcess(j)
    \/ ReportProgressStart(j) \/ LastReport(j) \/ ReportProgressEnd(j)
    \/ ProcessReturns(j) \/ ReportEnd(j)
    \/ LoopThrows(j)
    \/ SetIdle(j)

(* Reporters answer at will.                                               *)
CallsReporter(j) ==
    \E k \in Calls :
        \/ \E answer \in BOOLEAN : CallReporter(j, k, answer)
        \/ ReportResult(j, k)

Call(j) == StartProcessingAsync(j) \/ ProcessImage(j) \/ Refuse(j)

ProcessorNext ==
    \/ \E j \in Calls : Call(j) \/ DoProcessing(j) \/ CallsReporter(j)
    \/ (\A j \in Calls : Over(j)) /\ UNCHANGED processorVars

ProcessorSpec == ProcessorInit /\ [][ProcessorNext]_processorVars

-----------------------------------------------------------------------------
(* Properties.                                                             *)

(* Without overlapping calls a reporter is given the copy that was made    *)
(* for its own call.                                                       *)
ResultIsOwnCopy ==
    ~ overlapped => \A j \in Calls : reported[j] \subseteq {j}

(* Without overlapping calls native code works on memory that nobody frees *)
(* under it, and a reported result stays alive until the next call begins. *)
Native(j) == step[j] \in {"native", "raise", "raiseLast", "drawn", "report"}
WorkIsLive ==
    ~ overlapped =>
        /\ \A j \in Calls : Native(j) => work[j] \notin freedCopies \union {NULL}
        /\ state = "Idle" => resultPreciseBitmap \notin freedCopies

(* Whatever overlapped, once all calls are over and none died, the         *)
(* processor is idle and the result it keeps is not a freed one.           *)
SettledWhenOver ==
    (\A j \in Calls : step[j] \in {"new", "refused", "done"}) =>
        state = "Idle" /\ resultPreciseBitmap \notin freedCopies
=============================================================================
