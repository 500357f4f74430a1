---------------------------- MODULE ImageDelivery ---------------------------
(***************************************************************************)
(* What ImagesRegistry promises its callers, without threads, maps, locks  *)
(* and listeners: a client asks for a file, loads of files are started for *)
(* clients that asked, each ends once and for all with a bitmap of that    *)
(* file or with an exception, and a client is given only what a load of    *)
(* its file ended with, and nothing after it has left.                     *)
(***************************************************************************)
CONSTANTS
    Files,
    Clients,
    Loads,      \* the loads there may be; a decoded bitmap is named by its load
    NULL,       \* nothing: not asked, not started, not ended, no bitmap
    Failed      \* the load ended with an exception

VARIABLES
    asked,      \* client -> the file it asked for
    loads,      \* load -> the file it loads
    outcome,    \* load -> what it ended with
    given,      \* client -> what it was called with
    left,       \* the clients that have left
    running     \* the program runs

deliveryVars == <<asked, loads, outcome, given, left, running>>

Init ==
    /\ asked = [c \in Clients |-> NULL]
    /\ loads = [t \in Loads |-> NULL]
    /\ outcome = [t \in Loads |-> NULL]
    /\ given = [c \in Clients |-> {}]
    /\ left = {}
    /\ running = TRUE

Ask(c, f) ==
    /\ asked[c] = NULL
    /\ asked' = [asked EXCEPT ![c] = f]
    /\ UNCHANGED <<loads, outcome, given, left, running>>

Start(t, c) ==
    /\ asked[c] # NULL /\ c \notin left
    /\ loads[t] = NULL
    /\ loads' = [loads EXCEPT ![t] = asked[c]]
    /\ UNCHANGED <<asked, outcome, given, left, running>>

(* Two loads of one file may end with the bitmap of one of them.           *)
Bitmaps(f) == {b \in Loads : loads[b] = f}

End(t, o) ==
    /\ loads[t] # NULL /\ outcome[t] = NULL
    /\ o \in Bitmaps(loads[t]) \union {Failed}
    /\ outcome' = [outcome EXCEPT ![t] = o]
    /\ UNCHANGED <<asked, loads, given, left, running>>

Ended(f) == {t \in Loads : loads[t] = f /\ outcome[t] # NULL}

(* The client is called; once a bitmap was decoded it may also be called   *)
(* with null, before the bitmap is where callers find it.                  *)
Give(c, o) ==
    /\ asked[c] # NULL /\ c \notin left
    /\ \E t \in Ended(asked[c]) : o = outcome[t] \/ (o = NULL /\ outcome[t] # Failed)
    /\ given' = [given EXCEPT ![c] = @ \union {o}]
    /\ UNCHANGED <<asked, loads, outcome, left, running>>

Leave(c) ==
    /\ asked[c] # NULL
    /\ left' = left \union {c}
    /\ UNCHANGED <<asked, loads, outcome, given, running>>

(* An exception that nobody catches ends the process.                      *)
Die ==
    /\ running' = FALSE
    /\ UNCHANGED <<asked, loads, outcome, given, left>>

Next ==
    /\ running
    /\ \/ \E c \in Clients : (\E f \in Files : Ask(c, f)) \/ Leave(c)
       \/ \E t \in Loads : \E c \in Clients : Start(t, c)
       \/ \E t \in Loads : \E o \in Loads \union {Failed} : End(t, o)
       \/ \E c \in Clients : \E o \in Loads \union {NULL, Failed} : Give(c, o)
       \/ Die

Spec == Init /\ [][Next]_deliveryVars
=============================================================================
