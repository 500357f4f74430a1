------------------------------- MODULE LibRaw -------------------------------
(* One LibRaw processor (libraw_cxx.cpp and the stages of dcraw_common.cpp):*)
(* its memory, its progress flags, its sizes, and the calls open_file,      *)
(* open_buffer, unpack, dcraw_process, unpack_thumb and recycle, stage by   *)
(* stage, with everything that may throw.  A call starts when the client    *)
(* sets "call" and is over when it is "idle" again, with its answer in ret. *)
(* What the file holds is a record "file"; pixels are left out.             *)
EXTENDS NativeHeap, Integers

CONSTANT MaxTiles   \* rows of tiles that AHD asks before, at most

VARIABLES
    heap,       \* the C heap
    file,       \* what the file is like
    raw,        \* the processor's own fields
    call,       \* where the call in progress is; "idle" between calls
    ret,        \* what the last call returned
    told,       \* the last progress reported
    refused,    \* a report was answered with "cancel" in this load
    pending     \* the pending Java exception of the native method's thread

libVars == <<heap, file, raw, call, ret, told, refused, pending>>

-----------------------------------------------------------------------------
\* enum LibRaw_progress: the numbers are the shifts.
OPEN == 0
IDENTIFY == 1
SIZE_ADJUST == 2
LOAD_RAW == 3
REMOVE_ZEROES == 4
SCALE_COLORS == 8
PRE_INTERPOLATE == 9
INTERPOLATE == 10
MIX_GREEN == 11
MEDIAN_FILTER == 12
FUJI_ROTATE == 14
CONVERT_RGB_EARLY == 13   \* mutant: reported before the rotation
CONVERT_RGB == 17
STRETCH == 18
THUMB_LOAD == 28

\* The compared value progress_flags & THUMB_MASK is at least 2^stage.
Reached(stage) == \E f \in raw.flags \ {THUMB_LOAD} : f >= stage

SetProcFlag(r, stage) == [r EXCEPT !.flags = @ \cup {stage}]

\* How a decoder lays out what it reads, the blocks it holds while it
\* decodes, whether it reads through a byte buffer of its own, and whether
\* it gives up (IO_BADFILE) before that buffer exists.
LosslessJpeg == [layout |-> "flatfield", blocks |-> <<"work1", "work2">>, buffer |-> TRUE, badFile |-> TRUE]
CanonSraw    == [layout |-> "legacy", blocks |-> <<"work1">>, buffer |-> TRUE, badFile |-> TRUE]
AdobeDngLj   == [layout |-> "either", blocks |-> <<"work1">>, buffer |-> TRUE, badFile |-> TRUE]
AdobeDngNc   == [layout |-> "either", blocks |-> <<"work1">>, buffer |-> TRUE, badFile |-> FALSE]
Pentax       == [layout |-> "flatfield", blocks |-> <<>>, buffer |-> TRUE, badFile |-> TRUE]
Nikon        == [layout |-> "flatfield", blocks |-> <<"work1">>, buffer |-> TRUE, badFile |-> TRUE]
PhaseOneC    == [layout |-> "flatfield", blocks |-> <<"work1", "ph1_black">>, buffer |-> FALSE, badFile |-> FALSE]
FujiLoadRaw  == [layout |-> "flatfield", blocks |-> <<>>, buffer |-> FALSE, badFile |-> FALSE]

Decoders == {LosslessJpeg, CanonSraw, AdobeDngLj, AdobeDngNc, Pentax, Nikon, PhaseOneC, FujiLoadRaw}

\* get_decoder_info, for the decoders above.
DecoderLayout ==
    IF file.decoder.layout # "either" THEN file.decoder.layout
    ELSE IF raw.filters THEN "flatfield" ELSE "4component"

-----------------------------------------------------------------------------
Recycled == {"image", "thumb", "meta_data", "histogram", "oprof", "profile",
             "ph1_black", "raw_alloc"}

LibRawPointers == Recycled \cup {"stream", "input", "work1", "work2", "img", "buffer", "memimage"}

\* Between two calls of recycle the stages ask the memory manager for twelve
\* blocks at most; the code's table holds 32.
ASSUME LibRawAssumption == LibRawPointers \subseteq Pointers /\ MSIZE >= 12 /\ MaxTiles \in Nat

NoPicture == [w |-> 0, h |-> 0, iw |-> 0, ih |-> 0]

Recycle(h) ==
    Cleanup(IF raw.inputInternal THEN Free(h, Recycled \cup {"input"})
            ELSE Forget(Free(h, Recycled), {"input"}))

RecycledRaw ==
    [raw EXCEPT !.flags = {}, !.inputInternal = FALSE, !.size = NoPicture,
                !.shrink = FALSE, !.fuji = 0, !.area = 0, !.mixGreen = FALSE]

Code(e) ==
    CASE e = "ALLOC" -> "UNSUFFICIENT_MEMORY"
      [] e \in {"IO_EOF", "IO_CORRUPT"} -> "IO_ERROR"
      [] e = "CANCELLED" -> "CANCELLED_BY_CALLBACK"
      [] OTHER -> "UNSPECIFIED_ERROR"

Return(code) == call' = "idle" /\ ret' = code

\* What a local variable of a stage pointed to is out of reach after it.
\* (A decoder's byte buffer keeps its name here, to be found again.)
Unwound(h) == Forget(h, {"work1", "work2", "img"})

\* EXCEPTION_HANDLER: what is thrown while the heap is h ends the call.
\* An exception the handler does not list leaves everything as it is.
Throw(e, h) ==
    /\ call' = IF call = "identify" THEN "open_fails" ELSE "idle"
    /\ ret' = Code(e)
    /\ IF Code(e) = "UNSPECIFIED_ERROR"
       THEN heap' = Unwound(h) /\ raw' = raw
       ELSE heap' = Recycle(Unwound(h)) /\ raw' = RecycledRaw

\* RUN_CALLBACK.  A listener may throw: the exception stays pending and the
\* answer that native code reads is 0, which the callback turns into "cancel".
Answer(stage, go) ==
    IF ~raw.listening
    THEN go /\ UNCHANGED <<told, refused, pending>>
    ELSE /\ told' = stage
         /\ refused' = (refused \/ ~go)
         /\ IF go THEN pending' = pending ELSE pending' \in {pending, "java"}

\* A stage asks (all its questions name the same stage), and may be refused
\* while the heap is one of "asked"; it may find no memory, before it asks or
\* after, while the heap is one of "short"; or it ends with (r, h).
Stage(at, stage, asked, short, r, h, next) ==
    /\ call = at
    /\ UNCHANGED file
    /\ \/ /\ Answer(stage, TRUE)
          /\ raw' = SetProcFlag(r, stage) /\ heap' = h /\ call' = next
          /\ ret' = IF next = "idle" THEN "SUCCESS" ELSE ret
       \/ Answer(stage, FALSE) /\ \E a \in asked : Throw("CANCELLED", a)
       \/ /\ Answer(stage, TRUE) \/ UNCHANGED <<told, refused, pending>>
          /\ \E s \in short : Throw("ALLOC", s)

\* A step that asks nobody.
Step(at, r, h, next) ==
    /\ call = at /\ raw' = r /\ heap' = h /\ call' = next
    /\ ret' = IF next = "idle" THEN "SUCCESS" ELSE ret
    /\ UNCHANGED <<file, told, refused, pending>>

\* The same for a step that needs memory it may not get.
Acquire(at, r, h, next) ==
    \/ Step(at, r, h, next)
    \/ call = at /\ Throw("ALLOC", heap) /\ UNCHANGED <<file, told, refused, pending>>

\* A call that ends without having changed anything.
Refuse(at, code) ==
    call = at /\ Return(code) /\ UNCHANGED <<heap, file, raw, told, refused, pending>>

-----------------------------------------------------------------------------
\* open_file and open_buffer.

OpenRefused == ~file.readable /\ Refuse("open", "IO_ERROR")

\* A new stream, and the beginning of open_datastream.
Open ==
    /\ file.readable
    /\ LET stream == New(heap, <<"stream">>)
           kept   == Recycle(stream)   \* input_internal is FALSE by now
       IN  Step("open", [RecycledRaw EXCEPT !.flags = {OPEN}],
                [kept EXCEPT !.at["input"] = stream.at["stream"]], "identify")

\* catch (std::bad_alloc) around the new stream.
OpenShort ==
    /\ file.readable
    /\ call = "open" /\ Throw("ALLOC", heap)
    /\ UNCHANGED <<file, told, refused, pending>>

\* identify(), and the colour profile.
Identify ==
    Stage("identify", IDENTIFY, {heap}, IF file.profile THEN {heap} ELSE {},
          [raw EXCEPT !.colors = file.colors, !.filters = file.filters, !.fuji = file.fuji,
                      !.size = [NoPicture EXCEPT !.w = file.w, !.h = file.h]],
          IF file.profile THEN Malloc(heap, <<"profile">>) ELSE heap, "adopt")

HalfDown(n) == n \div 2     \* mutant

Half(n) == (n + 1) \div 2

Shrinks(r) == r.filters /\ (r.half \/ r.threshold)

InnerSize(r) ==
    IF Shrinks(r)
    THEN [r.size EXCEPT !.iw = Half(r.size.w), !.ih = Half(r.size.h)]
    ELSE [r.size EXCEPT !.iw = r.size.w, !.ih = r.size.h]

\* The end of open_datastream; open_file hands the stream to recycle.
Adopt ==
    IF file.supported
    THEN Step("adopt", [SetProcFlag(raw, SIZE_ADJUST) EXCEPT
                            !.shrink = Shrinks(raw), !.size = InnerSize(raw), !.inputInternal = TRUE],
              Forget(heap, {"stream"}), "idle")
    ELSE /\ call = "adopt" /\ call' = "open_fails" /\ ret' = "FILE_UNSUPPORTED"
         /\ UNCHANGED <<heap, file, raw, told, refused, pending>>

\* Mutant: the stream of a failed open is forgotten.
OpenFailsAndLeaves ==
    /\ call = "open_fails"
    /\ heap' = Forget(heap, {"stream"})
    /\ raw' = [raw EXCEPT !.inputInternal = FALSE]
    /\ Return(ret)
    /\ UNCHANGED <<file, told, refused, pending>>

\* open_file deletes the stream that open_datastream did not take.
OpenFails ==
    /\ call = "open_fails"
    /\ heap' = Free(heap, {"stream"})
    /\ raw' = [raw EXCEPT !.inputInternal = FALSE]
    /\ Return(ret)
    /\ UNCHANGED <<file, told, refused, pending>>

-----------------------------------------------------------------------------
\* unpack.

\* A legacy decoder writes where imgdata.image points, into raw_alloc.
RawAllocated ==
    LET m == IF file.metadata THEN Malloc(heap, <<"meta_data">>) ELSE heap
        a == Malloc(m, <<"raw_alloc">>)
    IN  IF DecoderLayout = "legacy"
        THEN [a EXCEPT !.at["image"] = a.at["raw_alloc"]] ELSE a

Unpack ==
    IF Reached(LOAD_RAW) \/ ~Reached(IDENTIFY) THEN Refuse("unpack", "OUT_OF_ORDER_CALL")
    ELSE
    /\ call = "unpack"
    /\ UNCHANGED file
    /\ \/ /\ Answer(LOAD_RAW, TRUE)
          /\ heap' = RawAllocated /\ call' = "load_raw"
          /\ UNCHANGED <<raw, ret>>
       \/ Answer(LOAD_RAW, FALSE) /\ Throw("CANCELLED", heap)
       \/ Answer(LOAD_RAW, TRUE) /\ file.metadata /\ Throw("ALLOC", heap)

Decoding == Malloc(heap, file.decoder.blocks)

Reading == IF file.decoder.buffer THEN New(Decoding, <<"buffer">>) ELSE Decoding

\* (this->*load_raw)(): gives up early, meets the end of the file or data
\* that make no sense (derror), or decodes all.
LoadRaw ==
    \/ /\ file.intact
       /\ Step("load_raw", raw, Free(Reading, {"buffer", "work1", "work2"}), "unpacked")
    \/ /\ call = "load_raw"
       /\ \/ file.decoder.blocks # <<>> /\ Throw("ALLOC", heap)
          \/ file.decoder.badFile /\ Throw("IO_BADFILE", Decoding)
          \/ ~file.intact /\ \E e \in {"IO_EOF", "IO_CORRUPT"} : Throw(e, Reading)
       /\ UNCHANGED <<file, told, refused, pending>>

Unpacked ==
    LET h == IF DecoderLayout = "legacy" THEN Forget(heap, {"image"}) ELSE heap
    IN  Stage("unpacked", LOAD_RAW, {h}, {}, raw, h, "idle")

-----------------------------------------------------------------------------
(* dcraw_process, with the options that are left at their defaults out:     *)
(* no cropping, bad pixels, dark frame, highlights, median passes, profile. *)

\* raw2image_ex: a picture of half the size when it is going to be averaged.
Raw2Image ==
    LET size == InnerSize(raw)
    IN  IF ~Reached(LOAD_RAW) THEN Refuse("process", "OUT_OF_ORDER_CALL")
        ELSE Acquire("process",
                [raw EXCEPT !.shrink = Shrinks(raw), !.size = size, !.area = size.iw * size.ih],
                Malloc(heap, <<"image">>), IF file.zeroIsBad THEN "remove_zeroes" ELSE "scale_colors")

RemoveZeroes == Stage("remove_zeroes", REMOVE_ZEROES, {heap}, {}, raw, heap, "scale_colors")

\* scale_colors, with wavelet_denoise under a threshold.
ScaleColors ==
    Stage("scale_colors", SCALE_COLORS, {heap}, IF raw.threshold THEN {heap} ELSE {},
          raw, heap, "pre_interpolate")

\* Mutant: the new block is not handed to image.
ReplacedNot ==
    LET n == Malloc(heap, <<"img">>)
    IN  [Free(n, {"image"}) EXCEPT !.at["image"] = heap.at["image"], !.at["img"] = NULL]

\* img = calloc(...); free(image); image = img
Replaced ==
    LET n == Malloc(heap, <<"img">>)
    IN  [Free(n, {"image"}) EXCEPT !.at["image"] = n.at["img"], !.at["img"] = NULL]

Area(size) == size.w * size.h

\* Mutant: the picture is spread over the reduced block.
ResizedInPlace ==
    IF ~raw.shrink THEN raw
    ELSE IF raw.half THEN [raw EXCEPT !.size.w = raw.size.iw, !.size.h = raw.size.ih]
    ELSE [raw EXCEPT !.shrink = FALSE]

\* The picture at its new size: half of it, or its pixels spread again.
Resized ==
    IF ~raw.shrink THEN raw
    ELSE IF raw.half THEN [raw EXCEPT !.size.w = raw.size.iw, !.size.h = raw.size.ih]
    ELSE [raw EXCEPT !.shrink = FALSE, !.area = Area(raw.size)]

\* Mutant: colors++ whatever the number of colours.
SeparatedAlways(r) ==
    LET mix == r.filters /\ r.half
    IN  [r EXCEPT !.mixGreen = mix, !.colors = IF mix THEN @ + 1 ELSE @, !.filters = @ /\ ~r.half]

\* Four colours keep the two greens of a Bayer matrix apart.
Separated(r) ==
    LET mix == r.filters /\ r.colors = 3 /\ r.half
    IN  [r EXCEPT !.mixGreen = mix, !.colors = IF mix THEN 4 ELSE @, !.filters = @ /\ ~r.half]

Demosaic(r) ==
    CASE ~r.filters                              -> "mix_green"
      [] r.filters /\ r.colors > 3               -> "vng"
      [] r.filters /\ r.colors <= 3 /\ r.fuji > 0 -> "ppg"
      [] OTHER                                   -> "ahd"

PreInterpolate ==
    LET grown == raw.shrink /\ ~raw.half
        h     == IF grown THEN Replaced ELSE heap
        r     == Separated(Resized)
    IN  Stage("pre_interpolate", PRE_INTERPOLATE, {heap, h}, IF grown THEN {heap} ELSE {},
              r, h, Demosaic(r))

\* lin_interpolate asks without, vng_interpolate with two blocks of its own.
Vng ==
    Stage("vng", INTERPOLATE, {heap, Malloc(heap, <<"work1", "work2">>)},
          {heap, Malloc(heap, <<"work1">>)}, raw, heap, "mix_green")

Ppg == Stage("ppg", INTERPOLATE, {heap}, {}, raw, heap, "mix_green")

\* ahd_interpolate asks before every row of tiles, also after a refusal.
AhdBuffer ==
    Acquire("ahd", [raw EXCEPT !.terminate = FALSE, !.tiles = 0], Malloc(heap, <<"work1">>), "ahd_rows")

\* Mutants: the last answer counts alone; the rows do not end.
AhdRowForgetful ==
    /\ call = "ahd_rows"
    /\ raw.tiles < MaxTiles
    /\ \E go \in BOOLEAN :
          /\ Answer(INTERPOLATE, go)
          /\ raw' = [raw EXCEPT !.terminate = ~go, !.tiles = @ + 1]
    /\ UNCHANGED <<heap, file, call, ret>>

AhdRowAgain ==
    /\ call = "ahd_rows"
    /\ \E go \in BOOLEAN :
          /\ Answer(INTERPOLATE, go)
          /\ raw' = [raw EXCEPT !.terminate = @ \/ ~go, !.tiles = 1 - @]
    /\ UNCHANGED <<heap, file, call, ret>>

AhdRow ==
    /\ call = "ahd_rows"
    /\ raw.tiles < MaxTiles
    /\ \E go \in BOOLEAN :
          /\ Answer(INTERPOLATE, go)
          /\ raw' = [raw EXCEPT !.terminate = @ \/ ~go, !.tiles = @ + 1]
    /\ UNCHANGED <<heap, file, call, ret>>

AhdEnds ==
    LET h == Free(heap, {"work1"})
    IN  \/ ~raw.terminate /\ Step("ahd_rows", SetProcFlag(raw, INTERPOLATE), h, "mix_green")
        \/ /\ raw.terminate /\ call = "ahd_rows"
           /\ Throw("CANCELLED", h)
           /\ UNCHANGED <<file, told, refused, pending>>

\* The mean of the greens, and median_filter without a pass.
MixGreen ==
    LET r == IF raw.mixGreen THEN SetProcFlag([raw EXCEPT !.colors = 3], MIX_GREEN) ELSE raw
    IN  Step("mix_green", IF r.colors = 3 THEN SetProcFlag(r, MEDIAN_FILTER) ELSE r,
             heap, "fuji_rotate")

\* n / sqrt(0.5), rounded down, for the widths of a small instance.
Diagonal(n) == (n * 99) \div 70

FujiRotate ==
    LET f     == IF raw.shrink THEN raw.fuji \div 2 ELSE raw.fuji - 1
        size  == [raw.size EXCEPT !.w = Diagonal(f), !.h = Diagonal(raw.size.h - f)]
    IN  IF raw.fuji = 0
        THEN Step("fuji_rotate", SetProcFlag(raw, FUJI_ROTATE), heap, "convert_to_rgb")
        ELSE Stage("fuji_rotate", FUJI_ROTATE, {Malloc(heap, <<"img">>), Replaced}, {heap},
                   [raw EXCEPT !.size = size, !.area = Area(size), !.fuji = 0],
                   Replaced, "convert_to_rgb")

\* Mutant: the fourth colour stays.
ConvertToFour ==
    LET counted == Malloc(heap, <<"histogram">>)
        h == IF raw.colors = 1 THEN counted ELSE Malloc(counted, <<"oprof">>)
    IN  Stage("convert_to_rgb", CONVERT_RGB, {counted, h}, {heap, counted}, raw, h, "stretch")

\* The histogram, and convert_to_rgb with its profile.
ConvertToRgb ==
    LET counted == Malloc(heap, <<"histogram">>)
        h == IF raw.colors = 1 THEN counted ELSE Malloc(counted, <<"oprof">>)
    IN  Stage("convert_to_rgb", CONVERT_RGB, {counted, h}, {heap, counted},
              [raw EXCEPT !.colors = IF @ = 4 THEN 3 ELSE @], h, "stretch")

\* Pixels that are not square: one side of the picture grows.
Stretch ==
    LET size == [raw.size EXCEPT !.w = @ * file.aspect.w, !.h = @ * file.aspect.h]
    IN  IF file.aspect.w = file.aspect.h
        THEN Step("stretch", SetProcFlag(raw, STRETCH), heap, "idle")
        ELSE Stage("stretch", STRETCH, {heap, Replaced}, {heap},
                   [raw EXCEPT !.size = size, !.area = Area(size)], Replaced, "idle")

-----------------------------------------------------------------------------
\* dcraw_make_mem_image: its errcode is set only when it fails; what
\* copy_mem_image answers is ignored.
MemImage ==
    /\ call = "mem_image" /\ call' = "idle"
    /\ \/ ret' = "ENOMEM" /\ UNCHANGED <<heap, raw>>
       \/ /\ heap' = New(heap, <<"memimage">>)
          /\ raw' = [raw EXCEPT !.made = [
                w |-> IF file.flip THEN raw.size.h ELSE raw.size.w,
                h |-> IF file.flip THEN raw.size.w ELSE raw.size.h,
                colors |-> raw.colors, copied |-> Reached(PRE_INTERPOLATE)]]
          /\ UNCHANGED ret
    /\ UNCHANGED <<file, told, refused, pending>>

\* unpack_thumb.
UnpackThumb ==
    IF ~Reached(IDENTIFY) \/ THUMB_LOAD \in raw.flags
    THEN Refuse("unpack_thumb", "OUT_OF_ORDER_CALL")
    ELSE
    \/ file.thumb = "none" /\ Refuse("unpack_thumb", "NO_THUMBNAIL")
    \/ file.thumb = "other" /\ Refuse("unpack_thumb", "UNSUPPORTED_THUMBNAIL")
    \/ /\ file.thumb \in {"jpeg", "ppm"}
       /\ Acquire("unpack_thumb", SetProcFlag(raw, THUMB_LOAD), Malloc(heap, <<"thumb">>), "idle")
    \* foveon_thumb_loader has no code in this build.
    \/ file.thumb = "foveon" /\ Step("unpack_thumb", SetProcFlag(raw, THUMB_LOAD), heap, "idle")

\* dcraw_make_mem_thumb.
MemThumb ==
    IF heap.at["thumb"] = NULL
    THEN Refuse("mem_thumb", IF file.thumb = "none" THEN "NO_THUMBNAIL" ELSE "OUT_OF_ORDER_CALL")
    ELSE \/ Refuse("mem_thumb", "ENOMEM")
         \/ Step("mem_thumb", raw, New(heap, <<"memimage">>), "idle")

LibRawNext ==
    \/ OpenRefused \/ Open \/ OpenShort \/ Identify \/ Adopt \/ OpenFails
    \/ Unpack \/ LoadRaw \/ Unpacked
    \/ Raw2Image \/ RemoveZeroes \/ ScaleColors \/ PreInterpolate
    \/ Vng \/ Ppg \/ AhdBuffer \/ AhdRow \/ AhdEnds
    \/ MixGreen \/ FujiRotate \/ ConvertToRgb \/ Stretch \/ MemImage
    \/ UnpackThumb \/ MemThumb
=============================================================================
