------------------------ MODULE ImageLoaderReporters ------------------------
(***************************************************************************)
(* com.cateye.ui.ImageLoaderReporters: the reporters of every image.  All  *)
(* its methods are `synchronized`, and callReport...ForImage keeps the     *)
(* object's monitor while it calls the reporters one after the other.      *)
(* The operators below are the steps of those methods; a module that uses  *)
(* them says who takes them and what a reporter does when it is called.    *)
(*                                                                         *)
(* A list without duplicates is a set here: no behaviour of the program    *)
(* depends on the order in which the reporters of one image are called.    *)
(***************************************************************************)
EXTENDS CatEyeObjects

VARIABLES
    imageLoaderReporters,   \* image -> the clients whose reporter is listed
    monitor,                \* the loader thread inside a callReport... loop
    toNotify                \* the reporters that loop has still to call

reportersVars == <<imageLoaderReporters, monitor, toNotify>>

ReportersTypeOK ==
    /\ imageLoaderReporters \in [Images -> SUBSET Clients]
    /\ monitor \in Loaders \union {NULL}
    /\ toNotify \in SUBSET Clients

ReportersInit ==
    /\ imageLoaderReporters = [i \in Images |-> {}]
    /\ monitor = NULL
    /\ toNotify = {}

(* A synchronized method starts only when no thread is inside another one. *)
MonitorFreeUnsynchronized == TRUE
MonitorFree == monitor = NULL

Add(i, c) ==
    /\ MonitorFree
    /\ imageLoaderReporters' =
           [imageLoaderReporters EXCEPT ![i] = @ \union {c}]
    /\ UNCHANGED <<monitor, toNotify>>

Remove(i, c) ==
    /\ MonitorFree
    /\ imageLoaderReporters' = [imageLoaderReporters EXCEPT ![i] = @ \ {c}]
    /\ UNCHANGED <<monitor, toNotify>>

ReportersOfEveryImage(i) ==
    UNION {imageLoaderReporters[j] : j \in Images}
ReportersOf(i) == imageLoaderReporters[i]

(* callReport...ForImage(i, ...) by thread t: entry, one reporter, exit.   *)
CallReportEnter(t, i) ==
    /\ MonitorFree
    /\ monitor' = t
    /\ toNotify' = ReportersOf(i)
    /\ UNCHANGED imageLoaderReporters

CallReportNext(t, c) ==
    /\ monitor = t
    /\ c \in toNotify
    /\ toNotify' = toNotify \ {c}
    /\ UNCHANGED <<imageLoaderReporters, monitor>>

CallReportLeave(t) ==
    /\ monitor = t
    /\ toNotify = {}
    /\ monitor' = NULL
    /\ UNCHANGED <<imageLoaderReporters, toNotify>>
=============================================================================
