--------------------------- MODULE CatEyeObjects ----------------------------
(* The objects and threads that the modules of the image registry name.    *)
CONSTANTS
    Files,      \* canonical paths of image files
    Images,     \* the RawImage objects
    Clients,    \* the windows or activities; each owns one ImageLoaderReporter
    Loaders,    \* the threads that loadImage may start
    NULL,       \* Java's null
    Failed      \* stands for an ImageLoaderException

ASSUME NullAssumption ==
    /\ NULL \notin Images \union Files \union Clients \union Loaders
    /\ Failed \notin Loaders \union {NULL}
=============================================================================
