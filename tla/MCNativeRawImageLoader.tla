----------------------- MODULE MCNativeRawImageLoader -----------------------
(* A file of every decoder, sound or broken, each with one peculiarity.      *)
EXTENDS NativeRawImageLoader

MCPointers == {"stream", "input", "image", "thumb", "meta_data", "histogram", "oprof", "profile",
               "ph1_black", "raw_alloc", "work1", "work2", "img", "buffer",
               "oc", "name", "fb", "processor", "memimage", "r", "g", "b"}

Square == [w |-> 1, h |-> 1]

Sensor(colors, filters, decoders) == {
    [readable |-> TRUE, supported |-> TRUE, intact |-> intact, profile |-> FALSE,
     metadata |-> FALSE, colors |-> colors, filters |-> filters, fuji |-> 0, w |-> 3, h |-> 2,
     aspect |-> Square, zeroIsBad |-> FALSE, decoder |-> d, thumb |-> "jpeg", flip |-> FALSE] :
        intact \in BOOLEAN, d \in decoders}

Plain ==
    Sensor(3, TRUE, {LosslessJpeg, AdobeDngLj, AdobeDngNc, Pentax, Nikon, PhaseOneC})
    \cup Sensor(4, TRUE, {AdobeDngLj})
    \cup Sensor(3, FALSE, {AdobeDngLj, CanonSraw})
    \cup Sensor(1, FALSE, {AdobeDngNc})
    \cup {[f EXCEPT !.fuji = 3, !.w = 5, !.h = 4] : f \in Sensor(3, TRUE, {FujiLoadRaw, AdobeDngLj})}

Sound == {f \in Plain : f.intact}

MCFiles ==
    Plain
    \cup {[f EXCEPT !.metadata = TRUE] : f \in Plain}
    \cup {[f EXCEPT !.readable = FALSE] : f \in Sound}
    \cup {[f EXCEPT !.supported = FALSE] : f \in Sound}
    \cup {[f EXCEPT !.profile = TRUE] : f \in Sound}
    \cup {[f EXCEPT !.zeroIsBad = TRUE] : f \in Sound}
    \cup {[f EXCEPT !.flip = TRUE] : f \in Sound}
    \cup {[f EXCEPT !.aspect.w = 2] : f \in Sound}
    \cup {[f EXCEPT !.aspect.h = 2] : f \in Sound}
    \cup {[f EXCEPT !.thumb = t] : f \in Sound, t \in {"none", "ppm", "foveon", "other"}}
=============================================================================
