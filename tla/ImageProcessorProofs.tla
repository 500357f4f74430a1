------------------------ MODULE ImageProcessorProofs ------------------------
(***************************************************************************)
(* Proofs about ImageProcessor for any number of calls, in either form,    *)
(* overlapping in any way.                                                 *)
(***************************************************************************)
EXTENDS ImageProcessor, TLAPS

(* Where a call has set the state, and where it has made its copy.         *)
Copied == {"process", "native", "raise", "raiseLast", "drawn", "report", "finish", "done"}
Begun == {"free", "copy", "process", "native", "raise", "raiseLast", "drawn",
          "report", "finish", "dead"}

(* A processor that works, works for a call that began and is not over, or *)
(* for one that an exception ended.                                        *)
WorkingInv == state = "Working" => \E j \in Calls : step[j] \in Begun

(* The result is a freed one only between the free and the copy of a call. *)
ResultInv ==
    resultPreciseBitmap \in freedCopies =>
        \E j \in Calls : step[j] \in {"copy", "dead"}

(* A copy is kept or freed only after it was made.                         *)
MadeInv ==
    \A j \in Calls :
        j \in freedCopies \union {resultPreciseBitmap} => step[j] \in Copied \union {"dead"}

(* As long as no two calls overlapped: there is one call at a time, and    *)
(* none after one that an exception ended; the fields are its own.         *)
OneCall ==
    \A j, k \in Calls : j # k /\ step[j] \notin {"new", "refused", "done"} => Over(k)
OwnState == \A j \in Calls : step[j] \in Begun => state = "Working"
OwnReporter ==
    \A j \in Calls : toReport[j] \subseteq {j} /\ (~ Over(j) => reporters \subseteq {j})
OwnCopy ==
    \A j \in Calls : step[j] \in Copied \ {"done"} =>
        resultPreciseBitmap = j /\ j \notin freedCopies
OwnWork == \A j \in Calls : Native(j) => work[j] = j
OwnResult == \A j \in Calls : reported[j] \subseteq {j}

AloneInv ==
    ~ overlapped => OneCall /\ OwnState /\ OwnReporter /\ OwnCopy /\ OwnWork /\ OwnResult

Inv == ProcessorTypeOK /\ WorkingInv /\ ResultInv /\ MadeInv /\ AloneInv

(* StartProcessingAsync keeps the invariant. *)
LEMMA StartProcessingAsyncInv ==
    ASSUME Inv, NEW j \in Calls, StartProcessingAsync(j)
    PROVE  Inv'
<1> USE CallsAssumption DEF Inv
<1>1. ProcessorTypeOK'
    BY DEF ProcessorTypeOK, Steps, StartProcessingAsync, At, Go, MayCall,
       NoteOverlap, SetReporters
<1>2. WorkingInv'
    BY DEF WorkingInv, Begun, Copied, ProcessorTypeOK, StartProcessingAsync,
       At, Go, MayCall, NoteOverlap, SetReporters
<1>3. ResultInv'
    BY DEF ResultInv, MadeInv, Copied, ProcessorTypeOK, StartProcessingAsync,
       At, Go, MayCall, NoteOverlap, SetReporters
<1>4. MadeInv'
    BY DEF MadeInv, Copied, ProcessorTypeOK, StartProcessingAsync, At, Go,
       MayCall, NoteOverlap, SetReporters
<1>5. ASSUME ~ overlapped' PROVE (OneCall /\ OwnState /\ OwnReporter /\ OwnCopy /\ OwnWork /\ OwnResult)'
    <2>0. ~ overlapped /\ OneCall /\ OwnState /\ OwnReporter /\ OwnCopy /\ OwnWork /\ OwnResult
        BY <1>5 DEF AloneInv, ProcessorTypeOK, StartProcessingAsync, At, Go,
           MayCall, NoteOverlap, SetReporters
    <2>1. OneCall'
        BY <1>5, <2>0 DEF OneCall, OwnState, Begun, Over, ProcessorTypeOK,
           Steps, StartProcessingAsync, At, Go, MayCall, NoteOverlap,
           SetReporters
    <2>2. OwnState'
        BY <1>5, <2>0 DEF OwnState, Begun, ProcessorTypeOK,
           StartProcessingAsync, At, Go, MayCall, NoteOverlap, SetReporters
    <2>3. OwnReporter'
        <3>1. \A k \in Calls : Over(k)
            BY <1>5 DEF ProcessorTypeOK, StartProcessingAsync, NoteOverlap
        <3>2. \A k \in Calls : k # j => Over(k)'
            BY <3>1 DEF Over, ProcessorTypeOK, StartProcessingAsync, Go
        <3>3. toReport' = toReport /\ reporters' = {j}
            BY DEF StartProcessingAsync, SetReporters
        <3>. QED
            BY <2>0, <3>2, <3>3 DEF OwnReporter
    <2>4. OwnCopy'
        BY <1>5, <2>0 DEF OwnCopy, OneCall, Over, Copied, MadeInv,
           ProcessorTypeOK, StartProcessingAsync, At, Go, MayCall, NoteOverlap,
           SetReporters
    <2>5. OwnWork'
        BY <1>5, <2>0 DEF OwnWork, Native, OwnCopy, OneCall, Over, Copied,
           ProcessorTypeOK, StartProcessingAsync, At, Go, MayCall, NoteOverlap,
           SetReporters
    <2>6. OwnResult'
        BY <1>5, <2>0 DEF OwnResult, OwnReporter, OneCall, OwnCopy, Over,
           Copied, ProcessorTypeOK, StartProcessingAsync, At, Go, MayCall,
           NoteOverlap, SetReporters
    <2>. QED
        BY <2>1, <2>2, <2>3, <2>4, <2>5, <2>6
<1>. QED
    BY <1>1, <1>2, <1>3, <1>4, <1>5 DEF AloneInv

(* ProcessImage keeps the invariant. *)
LEMMA ProcessImageInv ==
    ASSUME Inv, NEW j \in Calls, ProcessImage(j)
    PROVE  Inv'
<1> USE CallsAssumption DEF Inv
<1>1. ProcessorTypeOK'
    BY DEF ProcessorTypeOK, Steps, ProcessImage, At, Go, MayCall, NoteOverlap,
       SetReporters
<1>2. WorkingInv'
    BY DEF WorkingInv, Begun, Copied, ProcessorTypeOK, ProcessImage, At, Go,
       MayCall, NoteOverlap, SetReporters
<1>3. ResultInv'
    BY DEF ResultInv, MadeInv, Copied, ProcessorTypeOK, ProcessImage, At, Go,
       MayCall, NoteOverlap, SetReporters
<1>4. MadeInv'
    BY DEF MadeInv, Copied, ProcessorTypeOK, ProcessImage, At, Go, MayCall,
       NoteOverlap, SetReporters
<1>5. ASSUME ~ overlapped' PROVE (OneCall /\ OwnState /\ OwnReporter /\ OwnCopy /\ OwnWork /\ OwnResult)'
    <2>0. ~ overlapped /\ OneCall /\ OwnState /\ OwnReporter /\ OwnCopy /\ OwnWork /\ OwnResult
        BY <1>5 DEF AloneInv, ProcessorTypeOK, ProcessImage, At, Go, MayCall,
           NoteOverlap, SetReporters
    <2>1. OneCall'
        BY <1>5, <2>0 DEF OneCall, OwnState, Begun, Over, ProcessorTypeOK,
           Steps, ProcessImage, At, Go, MayCall, NoteOverlap, SetReporters
    <2>2. OwnState'
        BY <1>5, <2>0 DEF OwnState, Begun, ProcessorTypeOK, ProcessImage, At,
           Go, MayCall, NoteOverlap, SetReporters
    <2>3. OwnReporter'
        BY <1>5, <2>0 DEF OneCall, OwnReporter, Over, ProcessorTypeOK, MadeInv,
           ProcessImage, At, Go, MayCall, NoteOverlap, SetReporters
    <2>4. OwnCopy'
        BY <1>5, <2>0 DEF OwnCopy, OneCall, Over, Copied, MadeInv,
           ProcessorTypeOK, ProcessImage, At, Go, MayCall, NoteOverlap,
           SetReporters
    <2>5. OwnWork'
        BY <1>5, <2>0 DEF OwnWork, Native, OwnCopy, OneCall, Over, Copied,
           ProcessorTypeOK, ProcessImage, At, Go, MayCall, NoteOverlap,
           SetReporters
    <2>6. OwnResult'
        BY <1>5, <2>0 DEF OwnResult, OwnReporter, OneCall, OwnCopy, Over,
           Copied, ProcessorTypeOK, ProcessImage, At, Go, MayCall, NoteOverlap,
           SetReporters
    <2>. QED
        BY <2>1, <2>2, <2>3, <2>4, <2>5, <2>6
<1>. QED
    BY <1>1, <1>2, <1>3, <1>4, <1>5 DEF AloneInv

(* Refuse keeps the invariant. *)
LEMMA RefuseInv ==
    ASSUME Inv, NEW j \in Calls, Refuse(j)
    PROVE  Inv'
<1> USE CallsAssumption DEF Inv
<1>1. ProcessorTypeOK'
    BY DEF ProcessorTypeOK, Steps, Refuse, At, Go, MayCall
<1>2. WorkingInv'
    BY DEF WorkingInv, Begun, Copied, ProcessorTypeOK, Refuse, At, Go, MayCall
<1>3. ResultInv'
    BY DEF ResultInv, MadeInv, Copied, ProcessorTypeOK, Refuse, At, Go, MayCall
<1>4. MadeInv'
    BY DEF MadeInv, Copied, ProcessorTypeOK, Refuse, At, Go, MayCall
<1>5. ASSUME ~ overlapped' PROVE (OneCall /\ OwnState /\ OwnReporter /\ OwnCopy /\ OwnWork /\ OwnResult)'
    <2>0. ~ overlapped /\ OneCall /\ OwnState /\ OwnReporter /\ OwnCopy /\ OwnWork /\ OwnResult
        BY <1>5 DEF AloneInv, ProcessorTypeOK, Refuse, At, Go, MayCall
    <2>1. OneCall'
        BY <1>5, <2>0 DEF OneCall, OwnState, Begun, Over, ProcessorTypeOK,
           Steps, Refuse, At, Go, MayCall
    <2>2. OwnState'
        BY <1>5, <2>0 DEF OwnState, Begun, ProcessorTypeOK, Refuse, At, Go,
           MayCall
    <2>3. OwnReporter'
        BY <1>5, <2>0 DEF OneCall, OwnReporter, Over, ProcessorTypeOK, MadeInv,
           Refuse, At, Go, MayCall
    <2>4. OwnCopy'
        BY <1>5, <2>0 DEF OwnCopy, OneCall, Over, Copied, MadeInv,
           ProcessorTypeOK, Refuse, At, Go, MayCall
    <2>5. OwnWork'
        BY <1>5, <2>0 DEF OwnWork, Native, OwnCopy, OneCall, Over, Copied,
           ProcessorTypeOK, Refuse, At, Go, MayCall
    <2>6. OwnResult'
        BY <1>5, <2>0 DEF OwnResult, OwnReporter, OneCall, OwnCopy, Over,
           Copied, ProcessorTypeOK, Refuse, At, Go, MayCall
    <2>. QED
        BY <2>1, <2>2, <2>3, <2>4, <2>5, <2>6
<1>. QED
    BY <1>1, <1>2, <1>3, <1>4, <1>5 DEF AloneInv

(* SetWorking keeps the invariant. *)
LEMMA SetWorkingInv ==
    ASSUME Inv, NEW j \in Calls, SetWorking(j)
    PROVE  Inv'
<1> USE CallsAssumption DEF Inv
<1>1. ProcessorTypeOK'
    BY DEF ProcessorTypeOK, Steps, SetWorking, At, Go
<1>2. WorkingInv'
    BY DEF WorkingInv, Begun, Copied, ProcessorTypeOK, SetWorking, At, Go
<1>3. ResultInv'
    BY DEF ResultInv, MadeInv, Copied, ProcessorTypeOK, SetWorking, At, Go
<1>4. MadeInv'
    BY DEF MadeInv, Copied, ProcessorTypeOK, SetWorking, At, Go
<1>5. ASSUME ~ overlapped' PROVE (OneCall /\ OwnState /\ OwnReporter /\ OwnCopy /\ OwnWork /\ OwnResult)'
    <2>0. ~ overlapped /\ OneCall /\ OwnState /\ OwnReporter /\ OwnCopy /\ OwnWork /\ OwnResult
        BY <1>5 DEF AloneInv, ProcessorTypeOK, SetWorking, At, Go
    <2>1. OneCall'
        BY <1>5, <2>0 DEF OneCall, OwnState, Begun, Over, ProcessorTypeOK,
           Steps, SetWorking, At, Go
    <2>2. OwnState'
        BY <1>5, <2>0 DEF OwnState, Begun, ProcessorTypeOK, SetWorking, At, Go
    <2>3. OwnReporter'
        BY <1>5, <2>0 DEF OneCall, OwnReporter, Over, ProcessorTypeOK, MadeInv,
           SetWorking, At, Go
    <2>4. OwnCopy'
        BY <1>5, <2>0 DEF OwnCopy, OneCall, Over, Copied, MadeInv,
           ProcessorTypeOK, SetWorking, At, Go
    <2>5. OwnWork'
        BY <1>5, <2>0 DEF OwnWork, Native, OwnCopy, OneCall, Over, Copied,
           ProcessorTypeOK, SetWorking, At, Go
    <2>6. OwnResult'
        BY <1>5, <2>0 DEF OwnResult, OwnReporter, OneCall, OwnCopy, Over,
           Copied, ProcessorTypeOK, SetWorking, At, Go
    <2>. QED
        BY <2>1, <2>2, <2>3, <2>4, <2>5, <2>6
<1>. QED
    BY <1>1, <1>2, <1>3, <1>4, <1>5 DEF AloneInv

(* FreePrevious keeps the invariant. *)
LEMMA FreePreviousInv ==
    ASSUME Inv, NEW j \in Calls, FreePrevious(j)
    PROVE  Inv'
<1> USE CallsAssumption DEF Inv
<1>1. ProcessorTypeOK'
    BY DEF ProcessorTypeOK, Steps, FreePrevious, At, Go, Die, Go
<1>2. WorkingInv'
    BY DEF WorkingInv, Begun, Copied, ProcessorTypeOK, FreePrevious, At, Go,
       Die, Go
<1>3. ResultInv'
    BY DEF ResultInv, MadeInv, Copied, ProcessorTypeOK, FreePrevious, At, Go,
       Die, Go
<1>4. MadeInv'
    BY DEF MadeInv, Copied, ProcessorTypeOK, FreePrevious, At, Go, Die, Go
<1>5. ASSUME ~ overlapped' PROVE (OneCall /\ OwnState /\ OwnReporter /\ OwnCopy /\ OwnWork /\ OwnResult)'
    <2>0. ~ overlapped /\ OneCall /\ OwnState /\ OwnReporter /\ OwnCopy /\ OwnWork /\ OwnResult
        BY <1>5 DEF AloneInv, ProcessorTypeOK, FreePrevious, At, Go, Die, Go
    <2>1. OneCall'
        BY <1>5, <2>0 DEF OneCall, OwnState, Begun, Over, ProcessorTypeOK,
           Steps, FreePrevious, At, Go, Die, Go
    <2>2. OwnState'
        BY <1>5, <2>0 DEF OwnState, Begun, ProcessorTypeOK, FreePrevious, At,
           Go, Die, Go
    <2>3. OwnReporter'
        BY <1>5, <2>0 DEF OneCall, OwnReporter, Over, ProcessorTypeOK, MadeInv,
           FreePrevious, At, Go, Die, Go
    <2>4. OwnCopy'
        BY <1>5, <2>0 DEF OwnCopy, OneCall, Over, Copied, MadeInv,
           ProcessorTypeOK, FreePrevious, At, Go, Die, Go
    <2>5. OwnWork'
        BY <1>5, <2>0 DEF OwnWork, Native, OwnCopy, OneCall, Over, Copied,
           ProcessorTypeOK, FreePrevious, At, Go, Die, Go
    <2>6. OwnResult'
        BY <1>5, <2>0 DEF OwnResult, OwnReporter, OneCall, OwnCopy, Over,
           Copied, ProcessorTypeOK, FreePrevious, At, Go, Die, Go
    <2>. QED
        BY <2>1, <2>2, <2>3, <2>4, <2>5, <2>6
<1>. QED
    BY <1>1, <1>2, <1>3, <1>4, <1>5 DEF AloneInv

(* Copy keeps the invariant. *)
LEMMA CopyInv ==
    ASSUME Inv, NEW j \in Calls, Copy(j)
    PROVE  Inv'
<1> USE CallsAssumption DEF Inv
<1>1. ProcessorTypeOK'
    BY DEF ProcessorTypeOK, Steps, Copy, At, Go
<1>2. WorkingInv'
    BY DEF WorkingInv, Begun, Copied, ProcessorTypeOK, Copy, At, Go
<1>3. ResultInv'
    BY DEF ResultInv, MadeInv, Copied, ProcessorTypeOK, Copy, At, Go
<1>4. MadeInv'
    BY DEF MadeInv, Copied, ProcessorTypeOK, Copy, At, Go
<1>5. ASSUME ~ overlapped' PROVE (OneCall /\ OwnState /\ OwnReporter /\ OwnCopy /\ OwnWork /\ OwnResult)'
    <2>0. ~ overlapped /\ OneCall /\ OwnState /\ OwnReporter /\ OwnCopy /\ OwnWork /\ OwnResult
        BY <1>5 DEF AloneInv, ProcessorTypeOK, Copy, At, Go
    <2>1. OneCall'
        BY <1>5, <2>0 DEF OneCall, OwnState, Begun, Over, ProcessorTypeOK,
           Steps, Copy, At, Go
    <2>2. OwnState'
        BY <1>5, <2>0 DEF OwnState, Begun, ProcessorTypeOK, Copy, At, Go
    <2>3. OwnReporter'
        BY <1>5, <2>0 DEF OneCall, OwnReporter, Over, ProcessorTypeOK, MadeInv,
           Copy, At, Go
    <2>4. OwnCopy'
        BY <1>5, <2>0 DEF OwnCopy, OneCall, Over, Copied, MadeInv,
           ProcessorTypeOK, Copy, At, Go
    <2>5. OwnWork'
        BY <1>5, <2>0 DEF OwnWork, Native, OwnCopy, OneCall, Over, Copied,
           ProcessorTypeOK, Copy, At, Go
    <2>6. OwnResult'
        BY <1>5, <2>0 DEF OwnResult, OwnReporter, OneCall, OwnCopy, Over,
           Copied, ProcessorTypeOK, Copy, At, Go
    <2>. QED
        BY <2>1, <2>2, <2>3, <2>4, <2>5, <2>6
<1>. QED
    BY <1>1, <1>2, <1>3, <1>4, <1>5 DEF AloneInv

(* CopyThrows keeps the invariant. *)
LEMMA CopyThrowsInv ==
    ASSUME Inv, NEW j \in Calls, CopyThrows(j)
    PROVE  Inv'
<1> USE CallsAssumption DEF Inv
<1>1. ProcessorTypeOK'
    BY DEF ProcessorTypeOK, Steps, CopyThrows, At, Go, Die
<1>2. WorkingInv'
    BY DEF WorkingInv, Begun, Copied, ProcessorTypeOK, CopyThrows, At, Go, Die
<1>3. ResultInv'
    BY DEF ResultInv, MadeInv, Copied, ProcessorTypeOK, CopyThrows, At, Go, Die
<1>4. MadeInv'
    BY DEF MadeInv, Copied, ProcessorTypeOK, CopyThrows, At, Go, Die
<1>5. ASSUME ~ overlapped' PROVE (OneCall /\ OwnState /\ OwnReporter /\ OwnCopy /\ OwnWork /\ OwnResult)'
    <2>0. ~ overlapped /\ OneCall /\ OwnState /\ OwnReporter /\ OwnCopy /\ OwnWork /\ OwnResult
        BY <1>5 DEF AloneInv, ProcessorTypeOK, CopyThrows, At, Go, Die
    <2>1. OneCall'
        BY <1>5, <2>0 DEF OneCall, OwnState, Begun, Over, ProcessorTypeOK,
           Steps, CopyThrows, At, Go, Die
    <2>2. OwnState'
        BY <1>5, <2>0 DEF OwnState, Begun, ProcessorTypeOK, CopyThrows, At, Go,
           Die
    <2>3. OwnReporter'
        BY <1>5, <2>0 DEF OneCall, OwnReporter, Over, ProcessorTypeOK, MadeInv,
           CopyThrows, At, Go, Die
    <2>4. OwnCopy'
        BY <1>5, <2>0 DEF OwnCopy, OneCall, Over, Copied, MadeInv,
           ProcessorTypeOK, CopyThrows, At, Go, Die
    <2>5. OwnWork'
        BY <1>5, <2>0 DEF OwnWork, Native, OwnCopy, OneCall, Over, Copied,
           ProcessorTypeOK, CopyThrows, At, Go, Die
    <2>6. OwnResult'
        BY <1>5, <2>0 DEF OwnResult, OwnReporter, OneCall, OwnCopy, Over,
           Copied, ProcessorTypeOK, CopyThrows, At, Go, Die
    <2>. QED
        BY <2>1, <2>2, <2>3, <2>4, <2>5, <2>6
<1>. QED
    BY <1>1, <1>2, <1>3, <1>4, <1>5 DEF AloneInv

(* CallProcess keeps the invariant. *)
LEMMA CallProcessInv ==
    ASSUME Inv, NEW j \in Calls, CallProcess(j)
    PROVE  Inv'
<1> USE CallsAssumption DEF Inv
<1>1. ProcessorTypeOK'
    BY DEF ProcessorTypeOK, Steps, CallProcess, At, Go
<1>2. WorkingInv'
    BY DEF WorkingInv, Begun, Copied, ProcessorTypeOK, CallProcess, At, Go
<1>3. ResultInv'
    BY DEF ResultInv, MadeInv, Copied, ProcessorTypeOK, CallProcess, At, Go
<1>4. MadeInv'
    BY DEF MadeInv, Copied, ProcessorTypeOK, CallProcess, At, Go
<1>5. ASSUME ~ overlapped' PROVE (OneCall /\ OwnState /\ OwnReporter /\ OwnCopy /\ OwnWork /\ OwnResult)'
    <2>0. ~ overlapped /\ OneCall /\ OwnState /\ OwnReporter /\ OwnCopy /\ OwnWork /\ OwnResult
        BY <1>5 DEF AloneInv, ProcessorTypeOK, CallProcess, At, Go
    <2>1. OneCall'
        BY <1>5, <2>0 DEF OneCall, OwnState, Begun, Over, ProcessorTypeOK,
           Steps, CallProcess, At, Go
    <2>2. OwnState'
        BY <1>5, <2>0 DEF OwnState, Begun, ProcessorTypeOK, CallProcess, At, Go
    <2>3. OwnReporter'
        BY <1>5, <2>0 DEF OneCall, OwnReporter, Over, ProcessorTypeOK, MadeInv,
           CallProcess, At, Go
    <2>4. OwnCopy'
        BY <1>5, <2>0 DEF OwnCopy, OneCall, Over, Copied, MadeInv,
           ProcessorTypeOK, CallProcess, At, Go
    <2>5. OwnWork'
        BY <1>5, <2>0 DEF OwnWork, Native, OwnCopy, OneCall, Over, Copied,
           ProcessorTypeOK, CallProcess, At, Go
    <2>6. OwnResult'
        BY <1>5, <2>0 DEF OwnResult, OwnReporter, OneCall, OwnCopy, Over,
           Copied, ProcessorTypeOK, CallProcess, At, Go
    <2>. QED
        BY <2>1, <2>2, <2>3, <2>4, <2>5, <2>6
<1>. QED
    BY <1>1, <1>2, <1>3, <1>4, <1>5 DEF AloneInv

(* ReportProgressStart keeps the invariant. *)
LEMMA ReportProgressStartInv ==
    ASSUME Inv, NEW j \in Calls, ReportProgressStart(j)
    PROVE  Inv'
<1> USE CallsAssumption DEF Inv
<1>1. ProcessorTypeOK'
    BY DEF ProcessorTypeOK, Steps, ReportProgressStart, At, Go, StartLoop
<1>2. WorkingInv'
    BY DEF WorkingInv, Begun, Copied, ProcessorTypeOK, ReportProgressStart, At,
       Go, StartLoop
<1>3. ResultInv'
    BY DEF ResultInv, MadeInv, Copied, ProcessorTypeOK, ReportProgressStart,
       At, Go, StartLoop
<1>4. MadeInv'
    BY DEF MadeInv, Copied, ProcessorTypeOK, ReportProgressStart, At, Go,
       StartLoop
<1>5. ASSUME ~ overlapped' PROVE (OneCall /\ OwnState /\ OwnReporter /\ OwnCopy /\ OwnWork /\ OwnResult)'
    <2>0. ~ overlapped /\ OneCall /\ OwnState /\ OwnReporter /\ OwnCopy /\ OwnWork /\ OwnResult
        BY <1>5 DEF AloneInv, ProcessorTypeOK, ReportProgressStart, At, Go,
           StartLoop
    <2>1. OneCall'
        BY <1>5, <2>0 DEF OneCall, OwnState, Begun, Over, ProcessorTypeOK,
           Steps, ReportProgressStart, At, Go, StartLoop
    <2>2. OwnState'
        BY <1>5, <2>0 DEF OwnState, Begun, ProcessorTypeOK,
           ReportProgressStart, At, Go, StartLoop
    <2>3. OwnReporter'
        BY <1>5, <2>0 DEF OneCall, OwnReporter, Over, ProcessorTypeOK, MadeInv,
           ReportProgressStart, At, Go, StartLoop
    <2>4. OwnCopy'
        BY <1>5, <2>0 DEF OwnCopy, OneCall, Over, Copied, MadeInv,
           ProcessorTypeOK, ReportProgressStart, At, Go, StartLoop
    <2>5. OwnWork'
        BY <1>5, <2>0 DEF OwnWork, Native, OwnCopy, OneCall, Over, Copied,
           ProcessorTypeOK, ReportProgressStart, At, Go, StartLoop
    <2>6. OwnResult'
        BY <1>5, <2>0 DEF OwnResult, OwnReporter, OneCall, OwnCopy, Over,
           Copied, ProcessorTypeOK, ReportProgressStart, At, Go, StartLoop
    <2>. QED
        BY <2>1, <2>2, <2>3, <2>4, <2>5, <2>6
<1>. QED
    BY <1>1, <1>2, <1>3, <1>4, <1>5 DEF AloneInv

(* LastReport keeps the invariant. *)
LEMMA LastReportInv ==
    ASSUME Inv, NEW j \in Calls, LastReport(j)
    PROVE  Inv'
<1> USE CallsAssumption DEF Inv
<1>1. ProcessorTypeOK'
    BY DEF ProcessorTypeOK, Steps, LastReport, At, Go, StartLoop
<1>2. WorkingInv'
    BY DEF WorkingInv, Begun, Copied, ProcessorTypeOK, LastReport, At, Go,
       StartLoop
<1>3. ResultInv'
    BY DEF ResultInv, MadeInv, Copied, ProcessorTypeOK, LastReport, At, Go,
       StartLoop
<1>4. MadeInv'
    BY DEF MadeInv, Copied, ProcessorTypeOK, LastReport, At, Go, StartLoop
<1>5. ASSUME ~ overlapped' PROVE (OneCall /\ OwnState /\ OwnReporter /\ OwnCopy /\ OwnWork /\ OwnResult)'
    <2>0. ~ overlapped /\ OneCall /\ OwnState /\ OwnReporter /\ OwnCopy /\ OwnWork /\ OwnResult
        BY <1>5 DEF AloneInv, ProcessorTypeOK, LastReport, At, Go, StartLoop
    <2>1. OneCall'
        BY <1>5, <2>0 DEF OneCall, OwnState, Begun, Over, ProcessorTypeOK,
           Steps, LastReport, At, Go, StartLoop
    <2>2. OwnState'
        BY <1>5, <2>0 DEF OwnState, Begun, ProcessorTypeOK, LastReport, At, Go,
           StartLoop
    <2>3. OwnReporter'
        BY <1>5, <2>0 DEF OneCall, OwnReporter, Over, ProcessorTypeOK, MadeInv,
           LastReport, At, Go, StartLoop
    <2>4. OwnCopy'
        BY <1>5, <2>0 DEF OwnCopy, OneCall, Over, Copied, MadeInv,
           ProcessorTypeOK, LastReport, At, Go, StartLoop
    <2>5. OwnWork'
        BY <1>5, <2>0 DEF OwnWork, Native, OwnCopy, OneCall, Over, Copied,
           ProcessorTypeOK, LastReport, At, Go, StartLoop
    <2>6. OwnResult'
        BY <1>5, <2>0 DEF OwnResult, OwnReporter, OneCall, OwnCopy, Over,
           Copied, ProcessorTypeOK, LastReport, At, Go, StartLoop
    <2>. QED
        BY <2>1, <2>2, <2>3, <2>4, <2>5, <2>6
<1>. QED
    BY <1>1, <1>2, <1>3, <1>4, <1>5 DEF AloneInv

(* ReportProgressEnd keeps the invariant. *)
LEMMA ReportProgressEndInv ==
    ASSUME Inv, NEW j \in Calls, ReportProgressEnd(j)
    PROVE  Inv'
<1> USE CallsAssumption DEF Inv
<1>1. ProcessorTypeOK'
    BY DEF ProcessorTypeOK, Steps, ReportProgressEnd, At, Go, AfterReport
<1>2. WorkingInv'
    BY DEF WorkingInv, Begun, Copied, ProcessorTypeOK, ReportProgressEnd, At,
       Go, AfterReport
<1>3. ResultInv'
    BY DEF ResultInv, MadeInv, Copied, ProcessorTypeOK, ReportProgressEnd, At,
       Go, AfterReport
<1>4. MadeInv'
    BY DEF MadeInv, Copied, ProcessorTypeOK, ReportProgressEnd, At, Go,
       AfterReport
<1>5. ASSUME ~ overlapped' PROVE (OneCall /\ OwnState /\ OwnReporter /\ OwnCopy /\ OwnWork /\ OwnResult)'
    <2>0. ~ overlapped /\ OneCall /\ OwnState /\ OwnReporter /\ OwnCopy /\ OwnWork /\ OwnResult
        BY <1>5 DEF AloneInv, ProcessorTypeOK, ReportProgressEnd, At, Go,
           AfterReport
    <2>1. OneCall'
        BY <1>5, <2>0 DEF OneCall, OwnState, Begun, Over, ProcessorTypeOK,
           Steps, ReportProgressEnd, At, Go, AfterReport
    <2>2. OwnState'
        BY <1>5, <2>0 DEF OwnState, Begun, ProcessorTypeOK, ReportProgressEnd,
           At, Go, AfterReport
    <2>3. OwnReporter'
        BY <1>5, <2>0 DEF OneCall, OwnReporter, Over, ProcessorTypeOK, MadeInv,
           ReportProgressEnd, At, Go, AfterReport
    <2>4. OwnCopy'
        BY <1>5, <2>0 DEF OwnCopy, OneCall, Over, Copied, MadeInv,
           ProcessorTypeOK, ReportProgressEnd, At, Go, AfterReport
    <2>5. OwnWork'
        BY <1>5, <2>0 DEF OwnWork, Native, OwnCopy, OneCall, Over, Copied,
           ProcessorTypeOK, ReportProgressEnd, At, Go, AfterReport
    <2>6. OwnResult'
        BY <1>5, <2>0 DEF OwnResult, OwnReporter, OneCall, OwnCopy, Over,
           Copied, ProcessorTypeOK, ReportProgressEnd, At, Go, AfterReport
    <2>. QED
        BY <2>1, <2>2, <2>3, <2>4, <2>5, <2>6
<1>. QED
    BY <1>1, <1>2, <1>3, <1>4, <1>5 DEF AloneInv

(* ProcessReturns keeps the invariant. *)
LEMMA ProcessReturnsInv ==
    ASSUME Inv, NEW j \in Calls, ProcessReturns(j)
    PROVE  Inv'
<1> USE CallsAssumption DEF Inv
<1>1. ProcessorTypeOK'
    BY DEF ProcessorTypeOK, Steps, ProcessReturns, At, Go, StartLoop
<1>2. WorkingInv'
    BY DEF WorkingInv, Begun, Copied, ProcessorTypeOK, ProcessReturns, At, Go,
       StartLoop
<1>3. ResultInv'
    BY DEF ResultInv, MadeInv, Copied, ProcessorTypeOK, ProcessReturns, At, Go,
       StartLoop
<1>4. MadeInv'
    BY DEF MadeInv, Copied, ProcessorTypeOK, ProcessReturns, At, Go, StartLoop
<1>5. ASSUME ~ overlapped' PROVE (OneCall /\ OwnState /\ OwnReporter /\ OwnCopy /\ OwnWork /\ OwnResult)'
    <2>0. ~ overlapped /\ OneCall /\ OwnState /\ OwnReporter /\ OwnCopy /\ OwnWork /\ OwnResult
        BY <1>5 DEF AloneInv, ProcessorTypeOK, ProcessReturns, At, Go,
           StartLoop
    <2>1. OneCall'
        BY <1>5, <2>0 DEF OneCall, OwnState, Begun, Over, ProcessorTypeOK,
           Steps, ProcessReturns, At, Go, StartLoop
    <2>2. OwnState'
        BY <1>5, <2>0 DEF OwnState, Begun, ProcessorTypeOK, ProcessReturns, At,
           Go, StartLoop
    <2>3. OwnReporter'
        BY <1>5, <2>0 DEF OneCall, OwnReporter, Over, ProcessorTypeOK, MadeInv,
           ProcessReturns, At, Go, StartLoop
    <2>4. OwnCopy'
        BY <1>5, <2>0 DEF OwnCopy, OneCall, Over, Copied, MadeInv,
           ProcessorTypeOK, ProcessReturns, At, Go, StartLoop
    <2>5. OwnWork'
        BY <1>5, <2>0 DEF OwnWork, Native, OwnCopy, OneCall, Over, Copied,
           ProcessorTypeOK, ProcessReturns, At, Go, StartLoop
    <2>6. OwnResult'
        BY <1>5, <2>0 DEF OwnResult, OwnReporter, OneCall, OwnCopy, Over,
           Copied, ProcessorTypeOK, ProcessReturns, At, Go, StartLoop
    <2>. QED
        BY <2>1, <2>2, <2>3, <2>4, <2>5, <2>6
<1>. QED
    BY <1>1, <1>2, <1>3, <1>4, <1>5 DEF AloneInv

(* ReportEnd keeps the invariant. *)
LEMMA ReportEndInv ==
    ASSUME Inv, NEW j \in Calls, ReportEnd(j)
    PROVE  Inv'
<1> USE CallsAssumption DEF Inv
<1>1. ProcessorTypeOK'
    BY DEF ProcessorTypeOK, Steps, ReportEnd, At, Go
<1>2. WorkingInv'
    BY DEF WorkingInv, Begun, Copied, ProcessorTypeOK, ReportEnd, At, Go
<1>3. ResultInv'
    BY DEF ResultInv, MadeInv, Copied, ProcessorTypeOK, ReportEnd, At, Go
<1>4. MadeInv'
    BY DEF MadeInv, Copied, ProcessorTypeOK, ReportEnd, At, Go
<1>5. ASSUME ~ overlapped' PROVE (OneCall /\ OwnState /\ OwnReporter /\ OwnCopy /\ OwnWork /\ OwnResult)'
    <2>0. ~ overlapped /\ OneCall /\ OwnState /\ OwnReporter /\ OwnCopy /\ OwnWork /\ OwnResult
        BY <1>5 DEF AloneInv, ProcessorTypeOK, ReportEnd, At, Go
    <2>1. OneCall'
        BY <1>5, <2>0 DEF OneCall, OwnState, Begun, Over, ProcessorTypeOK,
           Steps, ReportEnd, At, Go
    <2>2. OwnState'
        BY <1>5, <2>0 DEF OwnState, Begun, ProcessorTypeOK, ReportEnd, At, Go
    <2>3. OwnReporter'
        BY <1>5, <2>0 DEF OneCall, OwnReporter, Over, ProcessorTypeOK, MadeInv,
           ReportEnd, At, Go
    <2>4. OwnCopy'
        BY <1>5, <2>0 DEF OwnCopy, OneCall, Over, Copied, MadeInv,
           ProcessorTypeOK, ReportEnd, At, Go
    <2>5. OwnWork'
        BY <1>5, <2>0 DEF OwnWork, Native, OwnCopy, OneCall, Over, Copied,
           ProcessorTypeOK, ReportEnd, At, Go
    <2>6. OwnResult'
        BY <1>5, <2>0 DEF OwnResult, OwnReporter, OneCall, OwnCopy, Over,
           Copied, ProcessorTypeOK, ReportEnd, At, Go
    <2>. QED
        BY <2>1, <2>2, <2>3, <2>4, <2>5, <2>6
<1>. QED
    BY <1>1, <1>2, <1>3, <1>4, <1>5 DEF AloneInv

(* LoopThrows keeps the invariant. *)
LEMMA LoopThrowsInv ==
    ASSUME Inv, NEW j \in Calls, LoopThrows(j)
    PROVE  Inv'
<1> USE CallsAssumption DEF Inv
<1>1. ProcessorTypeOK'
    BY DEF ProcessorTypeOK, Steps, LoopThrows, At, Go, Die, InLoop
<1>2. WorkingInv'
    BY DEF WorkingInv, Begun, Copied, ProcessorTypeOK, LoopThrows, At, Go, Die,
       InLoop
<1>3. ResultInv'
    BY DEF ResultInv, MadeInv, Copied, ProcessorTypeOK, LoopThrows, At, Go,
       Die, InLoop
<1>4. MadeInv'
    BY DEF MadeInv, Copied, ProcessorTypeOK, LoopThrows, At, Go, Die, InLoop
<1>5. ASSUME ~ overlapped' PROVE (OneCall /\ OwnState /\ OwnReporter /\ OwnCopy /\ OwnWork /\ OwnResult)'
    <2>0. ~ overlapped /\ OneCall /\ OwnState /\ OwnReporter /\ OwnCopy /\ OwnWork /\ OwnResult
        BY <1>5 DEF AloneInv, ProcessorTypeOK, LoopThrows, At, Go, Die, InLoop
    <2>1. OneCall'
        BY <1>5, <2>0 DEF OneCall, OwnState, Begun, Over, ProcessorTypeOK,
           Steps, LoopThrows, At, Go, Die, InLoop
    <2>2. OwnState'
        BY <1>5, <2>0 DEF OwnState, Begun, ProcessorTypeOK, LoopThrows, At, Go,
           Die, InLoop
    <2>3. OwnReporter'
        BY <1>5, <2>0 DEF OneCall, OwnReporter, Over, ProcessorTypeOK, MadeInv,
           LoopThrows, At, Go, Die, InLoop
    <2>4. OwnCopy'
        BY <1>5, <2>0 DEF OwnCopy, OneCall, Over, Copied, MadeInv,
           ProcessorTypeOK, LoopThrows, At, Go, Die, InLoop
    <2>5. OwnWork'
        BY <1>5, <2>0 DEF OwnWork, Native, OwnCopy, OneCall, Over, Copied,
           ProcessorTypeOK, LoopThrows, At, Go, Die, InLoop
    <2>6. OwnResult'
        BY <1>5, <2>0 DEF OwnResult, OwnReporter, OneCall, OwnCopy, Over,
           Copied, ProcessorTypeOK, LoopThrows, At, Go, Die, InLoop
    <2>. QED
        BY <2>1, <2>2, <2>3, <2>4, <2>5, <2>6
<1>. QED
    BY <1>1, <1>2, <1>3, <1>4, <1>5 DEF AloneInv

(* SetIdle keeps the invariant. *)
LEMMA SetIdleInv ==
    ASSUME Inv, NEW j \in Calls, SetIdle(j)
    PROVE  Inv'
<1> USE CallsAssumption DEF Inv
<1>1. ProcessorTypeOK'
    BY DEF ProcessorTypeOK, Steps, SetIdle, At, Go
<1>2. WorkingInv'
    BY DEF WorkingInv, Begun, Copied, ProcessorTypeOK, SetIdle, At, Go
<1>3. ResultInv'
    BY DEF ResultInv, MadeInv, Copied, ProcessorTypeOK, SetIdle, At, Go
<1>4. MadeInv'
    BY DEF MadeInv, Copied, ProcessorTypeOK, SetIdle, At, Go
<1>5. ASSUME ~ overlapped' PROVE (OneCall /\ OwnState /\ OwnReporter /\ OwnCopy /\ OwnWork /\ OwnResult)'
    <2>0. ~ overlapped /\ OneCall /\ OwnState /\ OwnReporter /\ OwnCopy /\ OwnWork /\ OwnResult
        BY <1>5 DEF AloneInv, ProcessorTypeOK, SetIdle, At, Go
    <2>1. OneCall'
        BY <1>5, <2>0 DEF OneCall, OwnState, Begun, Over, ProcessorTypeOK,
           Steps, SetIdle, At, Go
    <2>2. OwnState'
        BY <1>5, <2>0 DEF OneCall, Over, OwnState, Begun, ProcessorTypeOK,
           Steps, SetIdle, At, Go
    <2>3. OwnReporter'
        BY <1>5, <2>0 DEF OneCall, OwnReporter, Over, ProcessorTypeOK, MadeInv,
           SetIdle, At, Go
    <2>4. OwnCopy'
        BY <1>5, <2>0 DEF OwnCopy, OneCall, Over, Copied, MadeInv,
           ProcessorTypeOK, SetIdle, At, Go
    <2>5. OwnWork'
        BY <1>5, <2>0 DEF OwnWork, Native, OwnCopy, OneCall, Over, Copied,
           ProcessorTypeOK, SetIdle, At, Go
    <2>6. OwnResult'
        BY <1>5, <2>0 DEF OwnResult, OwnReporter, OneCall, OwnCopy, Over,
           Copied, ProcessorTypeOK, SetIdle, At, Go
    <2>. QED
        BY <2>1, <2>2, <2>3, <2>4, <2>5, <2>6
<1>. QED
    BY <1>1, <1>2, <1>3, <1>4, <1>5 DEF AloneInv

(* CallReporter keeps the invariant. *)
LEMMA CallReporterInv ==
    ASSUME Inv, NEW j \in Calls, NEW k \in Calls, NEW answer \in BOOLEAN, CallReporter(j, k, answer)
    PROVE  Inv'
<1> USE CallsAssumption DEF Inv
<1>1. ProcessorTypeOK'
    BY DEF ProcessorTypeOK, Steps, CallReporter, At, Go
<1>2. WorkingInv'
    BY DEF WorkingInv, Begun, Copied, ProcessorTypeOK, CallReporter, At, Go
<1>3. ResultInv'
    BY DEF ResultInv, MadeInv, Copied, ProcessorTypeOK, CallReporter, At, Go
<1>4. MadeInv'
    BY DEF MadeInv, Copied, ProcessorTypeOK, CallReporter, At, Go
<1>5. ASSUME ~ overlapped' PROVE (OneCall /\ OwnState /\ OwnReporter /\ OwnCopy /\ OwnWork /\ OwnResult)'
    <2>0. ~ overlapped /\ OneCall /\ OwnState /\ OwnReporter /\ OwnCopy /\ OwnWork /\ OwnResult
        BY <1>5 DEF AloneInv, ProcessorTypeOK, CallReporter, At, Go
    <2>1. OneCall'
        BY <1>5, <2>0 DEF OneCall, OwnState, Begun, Over, ProcessorTypeOK,
           Steps, CallReporter, At, Go
    <2>2. OwnState'
        BY <1>5, <2>0 DEF OwnState, Begun, ProcessorTypeOK, CallReporter, At,
           Go
    <2>3. OwnReporter'
        BY <1>5, <2>0 DEF OneCall, OwnReporter, Over, ProcessorTypeOK, MadeInv,
           CallReporter, At, Go
    <2>4. OwnCopy'
        BY <1>5, <2>0 DEF OwnCopy, OneCall, Over, Copied, MadeInv,
           ProcessorTypeOK, CallReporter, At, Go
    <2>5. OwnWork'
        BY <1>5, <2>0 DEF OwnWork, Native, OwnCopy, OneCall, Over, Copied,
           ProcessorTypeOK, CallReporter, At, Go
    <2>6. OwnResult'
        BY <1>5, <2>0 DEF OwnResult, OwnReporter, OneCall, OwnCopy, Over,
           Copied, ProcessorTypeOK, CallReporter, At, Go
    <2>. QED
        BY <2>1, <2>2, <2>3, <2>4, <2>5, <2>6
<1>. QED
    BY <1>1, <1>2, <1>3, <1>4, <1>5 DEF AloneInv

(* ReportResult keeps the invariant. *)
LEMMA ReportResultInv ==
    ASSUME Inv, NEW j \in Calls, NEW k \in Calls, ReportResult(j, k)
    PROVE  Inv'
<1> USE CallsAssumption DEF Inv
<1>1. ProcessorTypeOK'
    BY DEF ProcessorTypeOK, Steps, ReportResult, At, Go
<1>2. WorkingInv'
    BY DEF WorkingInv, Begun, Copied, ProcessorTypeOK, ReportResult, At, Go
<1>3. ResultInv'
    BY DEF ResultInv, MadeInv, Copied, ProcessorTypeOK, ReportResult, At, Go
<1>4. MadeInv'
    BY DEF MadeInv, Copied, ProcessorTypeOK, ReportResult, At, Go
<1>5. ASSUME ~ overlapped' PROVE (OneCall /\ OwnState /\ OwnReporter /\ OwnCopy /\ OwnWork /\ OwnResult)'
    <2>0. ~ overlapped /\ OneCall /\ OwnState /\ OwnReporter /\ OwnCopy /\ OwnWork /\ OwnResult
        BY <1>5 DEF AloneInv, ProcessorTypeOK, ReportResult, At, Go
    <2>1. OneCall'
        BY <1>5, <2>0 DEF OneCall, OwnState, Begun, Over, ProcessorTypeOK,
           Steps, ReportResult, At, Go
    <2>2. OwnState'
        BY <1>5, <2>0 DEF OwnState, Begun, ProcessorTypeOK, ReportResult, At,
           Go
    <2>3. OwnReporter'
        BY <1>5, <2>0 DEF OneCall, OwnReporter, Over, ProcessorTypeOK, MadeInv,
           ReportResult, At, Go
    <2>4. OwnCopy'
        BY <1>5, <2>0 DEF OwnCopy, OneCall, Over, Copied, MadeInv,
           ProcessorTypeOK, ReportResult, At, Go
    <2>5. OwnWork'
        BY <1>5, <2>0 DEF OwnWork, Native, OwnCopy, OneCall, Over, Copied,
           ProcessorTypeOK, ReportResult, At, Go
    <2>6. OwnResult'
        BY <1>5, <2>0 DEF OwnResult, OwnReporter, OneCall, OwnCopy, Over,
           Copied, ProcessorTypeOK, ReportResult, At, Go
    <2>. QED
        BY <2>1, <2>2, <2>3, <2>4, <2>5, <2>6
<1>. QED
    BY <1>1, <1>2, <1>3, <1>4, <1>5 DEF AloneInv

(* The initial state satisfies the invariant.                              *)
LEMMA InitInv == ProcessorInit => Inv
BY CallsAssumption DEF ProcessorInit, Inv, ProcessorTypeOK, Steps,
   WorkingInv, ResultInv, MadeInv, AloneInv, OneCall, OwnState,
   OwnReporter, OwnCopy, OwnWork, OwnResult, Over, Begun, Copied, Native

(* Every step of the processor, its callers and its reporters keeps it.    *)
LEMMA StepInv == Inv /\ [ProcessorNext]_processorVars => Inv'
<1> SUFFICES ASSUME Inv, [ProcessorNext]_processorVars PROVE Inv'
    OBVIOUS
<1>1. CASE \E j \in Calls : Call(j)
    BY <1>1, StartProcessingAsyncInv, ProcessImageInv, RefuseInv DEF Call
<1>2. CASE \E j \in Calls : DoProcessing(j)
    BY <1>2, SetWorkingInv, FreePreviousInv, CopyInv, CopyThrowsInv,
       CallProcessInv, ReportProgressStartInv,
       LastReportInv, ReportProgressEndInv, ProcessReturnsInv, ReportEndInv,
       LoopThrowsInv, SetIdleInv DEF DoProcessing
<1>3. CASE \E j \in Calls : CallsReporter(j)
    BY <1>3, CallReporterInv, ReportResultInv DEF CallsReporter
<1>4. CASE UNCHANGED processorVars
    BY <1>4 DEF processorVars, Inv, ProcessorTypeOK, WorkingInv, ResultInv,
       MadeInv, AloneInv, OneCall, OwnState, OwnReporter, OwnCopy, OwnWork, OwnResult,
       Over, Native
<1>. QED
    BY <1>1, <1>2, <1>3, <1>4 DEF ProcessorNext

(* Inv is an invariant.                                                    *)
LEMMA Invariance == ProcessorSpec => []Inv
BY InitInv, StepInv, PTL DEF ProcessorSpec

(* The processor's variables keep their types.                             *)
THEOREM TypeCorrect == ProcessorSpec => []ProcessorTypeOK
<1>1. Inv => ProcessorTypeOK
    BY DEF Inv
<1>. QED
    BY <1>1, Invariance, PTL

(* Of calls that never overlap, each one's reporter is given the copy that *)
(* call made.                                                              *)
THEOREM OwnCopyReported == ProcessorSpec => []ResultIsOwnCopy
<1>1. Inv => ResultIsOwnCopy
    BY DEF Inv, AloneInv, OwnResult, ResultIsOwnCopy
<1>. QED
    BY <1>1, Invariance, PTL

(* Of calls that never overlap, none has the bitmap its native code works  *)
(* on freed under it, and a result that was reported lives until the next  *)
(* call begins.                                                            *)
THEOREM WorkLives == ProcessorSpec => []WorkIsLive
<1>1. ASSUME Inv, ~ overlapped, NEW j \in Calls, Native(j)
      PROVE  work[j] \notin freedCopies \union {NULL}
    BY <1>1, CallsAssumption DEF Inv, AloneInv, OwnWork, OwnCopy, Native,
       Copied
<1>2. ASSUME Inv, ~ overlapped, state = "Idle"
      PROVE  resultPreciseBitmap \notin freedCopies
    BY <1>2 DEF Inv, ResultInv, AloneInv, OwnState, Begun
<1>3. Inv => WorkIsLive
    BY <1>1, <1>2 DEF WorkIsLive
<1>. QED
    BY <1>3, Invariance, PTL

(* However the calls overlapped, when all of them are over and none was    *)
(* ended by an exception, the processor takes new calls and the result it  *)
(* keeps has not been freed.                                               *)
THEOREM Settles == ProcessorSpec => []SettledWhenOver
<1>1. Inv => SettledWhenOver
    BY DEF Inv, ProcessorTypeOK, WorkingInv, ResultInv, Begun, SettledWhenOver
<1>. QED
    BY <1>1, Invariance, PTL
=============================================================================
