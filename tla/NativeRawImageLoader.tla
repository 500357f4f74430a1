------------------------ MODULE NativeRawImageLoader ------------------------
(* The two native methods of RawImageLoader (jni/RawImageLoader.cpp): a load *)
(* is one call of one of them, on a processor of its own.  It runs to the    *)
(* end or to the crash on one thread; what may interrupt it is the listener, *)
(* the file and the heap.                                                    *)
EXTENDS LibRaw

CONSTANTS
    Files,          \* the files there are
    Builds          \* "win32" reads the file into a buffer first; "posix" does not

VARIABLES
    build,      \* the build that runs
    method,     \* "precise" or "description"
    pc,         \* where the native method is
    handed      \* what the Java object holds: nothing, or arrays of this size

LoaderPointers == {"oc", "name", "fb", "processor", "r", "g", "b"}

\* What identify() may find.  A rotated sensor has fuji_width columns less
\* than its picture is high (height = width - 1), one side of a pixel at most
\* is long, and colours are one, three or four (a linear DNG of two samples
\* is left out).
PossibleFiles ==
    {f \in [readable : BOOLEAN, supported : BOOLEAN, intact : BOOLEAN, profile : BOOLEAN,
            metadata : BOOLEAN, colors : {1, 3, 4}, filters : BOOLEAN, fuji : Nat,
            w : Nat \ {0}, h : Nat \ {0}, aspect : [w : Nat \ {0}, h : Nat \ {0}],
            zeroIsBad : BOOLEAN, decoder : Decoders,
            thumb : {"none", "jpeg", "ppm", "foveon", "other"}, flip : BOOLEAN] :
        f.fuji < f.h /\ 1 \in {f.aspect.w, f.aspect.h}}

ASSUME LoaderAssumption ==
    LoaderPointers \subseteq Pointers /\ Files \subseteq PossibleFiles /\ Builds \subseteq {"posix", "win32"}

loaderVars == <<build, method, pc, handed>>
vars == <<libVars, loaderVars>>

Nothing == [w |-> 0, h |-> 0]

Colours == <<"r", "g", "b">>

JavaArrays(h) == {h.at[p] : p \in ToSet(Colours)}

Init ==
    /\ heap = EmptyHeap
    /\ file \in Files
    /\ raw = [flags |-> {}, inputInternal |-> FALSE, size |-> NoPicture, shrink |-> FALSE,
              fuji |-> 0, area |-> 0, mixGreen |-> FALSE, colors |-> 0, filters |-> FALSE,
              half |-> FALSE, threshold |-> FALSE, listening |-> FALSE, terminate |-> FALSE,
              tiles |-> 0, made |-> [w |-> 0, h |-> 0, colors |-> 0, copied |-> FALSE]]
    /\ call = "idle" /\ ret = "SUCCESS" /\ told = OPEN /\ refused = FALSE /\ pending = "none"
    /\ method \in {"precise", "description"}
    /\ build \in Builds /\ (method = "description" => build = "posix")
    /\ pc = "start" /\ handed = Nothing

Goto(next) == pc' = next /\ UNCHANGED <<build, method, handed>>

-----------------------------------------------------------------------------
\* Up to open_file or open_buffer.  A file that _wfopen cannot open leaves the
\* result unset; the description is always read with open_file.
StartPrecise ==
    LET mine == IF build = "win32" THEN "fb" ELSE "name"
    IN  /\ pc = "start" /\ method = "precise"
        /\ IF build = "win32" /\ ~file.readable
           THEN /\ Goto("end")
                /\ heap' = New(heap, <<"oc">>) /\ ret' \in {"SUCCESS", "UNSPECIFIED_ERROR"}
                /\ UNCHANGED <<raw, call>>
           ELSE /\ Goto("opened")
                /\ heap' = New(heap, <<"oc", mine, "processor">>)
                /\ call' = "open" /\ ret' = ret
                /\ \E half \in BOOLEAN :
                      raw' = [raw EXCEPT !.half = half, !.threshold = TRUE, !.listening = TRUE]
        /\ UNCHANGED <<file, told, refused, pending>>

StartDescription ==
    /\ pc = "start" /\ method = "description"
    /\ Goto("opened")
    /\ heap' = New(heap, <<"name", "processor">>)
    /\ call' = "open"
    /\ UNCHANGED <<file, raw, ret, told, refused, pending>>

\* if (ret != LIBRAW_SUCCESS) goto end; the next call of the processor.
Continue(of, here, nextCall, next) ==
    /\ method = of /\ pc = here /\ call = "idle"
    /\ IF ret = "SUCCESS" THEN call' = nextCall /\ Goto(next) ELSE call' = call /\ Goto("end")
    /\ UNCHANGED <<heap, file, raw, ret, told, refused, pending>>

LoadPrecise ==
    \/ Continue("precise", "opened", "unpack", "unpacked")
    \/ Continue("precise", "unpacked", "process", "processed")
    \/ Continue("precise", "processed", "mem_image", "made")

LoadDescription ==
    \/ Continue("description", "opened", "unpack_thumb", "thumb_unpacked")
    \/ Continue("description", "thumb_unpacked", "mem_thumb", "made")

NoImage ==
    /\ pc = "made" /\ call = "idle"
    /\ heap.at["memimage"] = NULL
    /\ Goto("end")
    /\ UNCHANGED libVars

\* decode_precise, the bitmap's fields and the call of recycle.  Nobody looks
\* at what PreciseBitmap_Init says: without memory its pointers are written
\* through.
DecodePrecise ==
    /\ pc = "made" /\ method = "precise" /\ call = "idle"
    /\ heap.at["memimage"] # NULL
    /\ \/ /\ heap' = Recycle(New(heap, Colours))
          /\ raw' = RecycledRaw
          /\ handed' = [w |-> raw.made.w, h |-> raw.made.h]
          /\ pc' = "end" /\ UNCHANGED <<build, method>>
       \/ Goto("crashed") /\ UNCHANGED <<heap, raw>>
    /\ UNCHANGED <<file, call, ret, told, refused, pending>>

\* decode_jpeg or decode_plain; libjpeg's error handler ends the process.
DecodeThumb ==
    /\ pc = "made" /\ method = "description" /\ call = "idle"
    /\ heap.at["memimage"] # NULL
    /\ \/ /\ file.thumb = "ppm" \/ file.intact
          /\ heap' = Recycle(New(heap, Colours))
          /\ raw' = RecycledRaw
          /\ handed' = [w |-> file.w, h |-> file.h]
          /\ pc' = "end" /\ UNCHANGED <<build, method>>
       \/ /\ file.thumb = "jpeg" /\ ~file.intact
          /\ Goto("exited") /\ UNCHANGED <<heap, raw>>
       \/ Goto("crashed") /\ UNCHANGED <<heap, raw>>
    /\ UNCHANGED <<file, call, ret, told, refused, pending>>

\* How the class LibRawException declares its methods.
Declared == [createSpecificException |-> "static"]

\* env->GetMethodID finds methods of instances only; where it finds none, a
\* NoSuchMethodError is pending and nothing is thrown after it.
Thrown ==
    IF Declared.createSpecificException = "static" THEN "NoSuchMethodError" ELSE "LibRawException"

\* Mutant: a cancelled load is no error.
ThrowInJavaUnlessCancelled ==
    pending' = IF ret \in {"SUCCESS", "CANCELLED_BY_CALLBACK"} \/ pending # "none" THEN pending
               ELSE Thrown

\* throwLibRawExceptionInJava.  An exception that is pending already stays.
ThrowInJava == pending' = IF ret = "SUCCESS" \/ pending # "none" THEN pending ELSE Thrown

\* end: ~LibRaw recycles once more.
End ==
    LET mine == {"fb", "name", "oc", "memimage", "processor"}
    IN  /\ pc = "end"
        /\ IF heap.at["processor"] = NULL
           THEN heap' = Free(heap, mine) /\ raw' = raw
           ELSE heap' = Recycle(Free(heap, mine)) /\ raw' = RecycledRaw
        /\ ThrowInJava
        /\ Goto("returned")
        /\ UNCHANGED <<file, call, ret, told, refused>>

Over == pc \in {"returned", "crashed", "exited"}

Done == Over /\ UNCHANGED vars

Next ==
    \/ LibRawNext /\ UNCHANGED loaderVars
    \/ StartPrecise \/ StartDescription \/ LoadPrecise \/ LoadDescription
    \/ NoImage \/ DecodePrecise \/ DecodeThumb \/ End
    \/ Done

\* One thread runs, and the listener returns.
Spec == Init /\ [][Next]_vars /\ WF_vars(Next)

-----------------------------------------------------------------------------
Stages == {"idle", "open", "identify", "adopt", "open_fails", "unpack", "load_raw", "unpacked",
           "process", "remove_zeroes", "scale_colors", "pre_interpolate", "vng", "ppg", "ahd",
           "ahd_rows", "mix_green", "fuji_rotate", "convert_to_rgb", "stretch", "mem_image",
           "unpack_thumb", "mem_thumb"}

TypeOK ==
    /\ heap \in Heaps
    /\ call \in Stages
    /\ told \in OPEN..THUMB_LOAD
    /\ refused \in BOOLEAN
    /\ pending \in {"none", "java", "LibRawException", "NoSuchMethodError"}
    /\ raw.flags \subseteq OPEN..THUMB_LOAD
    /\ raw.colors \in 0..4 /\ raw.area \in Nat /\ raw.tiles \in 0..MaxTiles
    /\ pc \in {"start", "opened", "unpacked", "processed", "thumb_unpacked", "made", "end",
              "returned", "crashed", "exited"}

\* Recycle after an error, the client's own recycle and the destructor's come
\* one after the other, and stages replace or lose their blocks: no block is
\* freed twice.  Only after a failure of a decoder that writes through
\* imgdata.image is its block freed once as image and once as raw_alloc.
FreedOnce == heap.twice => file.decoder = CanonSraw /\ ret # "SUCCESS"

\* A native method that returned has left alive the arrays it gave to the Java
\* object and nothing else, wherever it was refused, met the end of the file
\* or found no memory; a decoder that met broken data loses its byte buffer.
NothingLeaks ==
    pc = "returned" =>
        heap.live = (IF handed = Nothing THEN {} ELSE JavaArrays(heap))
                    \cup (IF file.intact THEN {} ELSE {heap.at["buffer"]} \ {NULL})

\* The Java caller gets a bitmap or an exception, and not both; a file that
\* the Windows build cannot open may give neither.
FailureIsReported ==
    pc = "returned" =>
        \/ (handed = Nothing) <=> (pending # "none")
        \/ build = "win32" /\ ~file.readable /\ method = "precise"

\* A load whose listener once said "cancel", or threw, never ends with a
\* bitmap, and its answer is "cancelled" and no other error.
CancelIsFinal ==
    pc = "returned" /\ refused => handed = Nothing /\ ret = "CANCELLED_BY_CALLBACK"

\* The progress bar never goes back: whatever stages a picture needs, they
\* report in the order of their numbers.
ProgressNeverGoesBack == [][told' >= told]_vars

\* Every stage finds memory for the picture it works on: the reduced one
\* before pre_interpolate, and then the one of the sizes the stages agree on
\* (enlarged, halved, turned or stretched).
ImageHoldsPicture ==
    /\ call \in {"remove_zeroes", "scale_colors", "pre_interpolate"} =>
            raw.area >= raw.size.iw * raw.size.ih
    /\ call \in {"vng", "ppg", "ahd", "ahd_rows", "mix_green", "fuji_rotate", "convert_to_rgb",
                "stretch", "mem_image"} => raw.area >= Area(raw.size)

\* decode_precise takes three values a pixel, which somebody wrote, and there
\* are three, whichever colours the sensor has and whichever way they were
\* interpolated (a monochrome sensor has one, and the reads go past the
\* picture's end).  Under divideBy2 the bitmap is half as wide and half as
\* high, the sides rounded up and swapped when the camera was upright, but
\* only where there is a colour matrix to average.
PictureIsWhole ==
    LET side(n) == IF file.filters /\ raw.half THEN (n + 1) \div 2 ELSE n
    IN  handed # Nothing /\ method = "precise" =>
            /\ raw.made.copied
            /\ file.colors # 1 => raw.made.colors = 3
            /\ file.fuji = 0 =>
                   {handed.w, handed.h} =
                       {side(file.w) * file.aspect.w, side(file.h) * file.aspect.h}

\* Every load returns to Java or ends the process.
LoadReturns == <>Over
=============================================================================
