----------------------------- MODULE NativeHeap -----------------------------
(* The C heap, and LibRaw's memory manager on top of it.  A heap is the       *)
(* blocks that are allocated (live), those the memory manager remembers       *)
(* (mems), which pointer holds which block (at), whether a block that was not *)
(* live has ever been freed (twice), and the next block's number: a freed     *)
(* block's number is not used again, so a dangling pointer can be told.       *)
EXTENDS Naturals, FiniteSets, SequencesExt

CONSTANTS
    Pointers,   \* names of the program's pointers
    MSIZE       \* what the memory manager's table holds

ASSUME HeapAssumption == IsFiniteSet(Pointers) /\ MSIZE \in Nat

NULL == 0

Heaps == [live : SUBSET Nat, mems : SUBSET Nat, at : [Pointers -> Nat],
          twice : BOOLEAN, next : Nat]

EmptyHeap == [live |-> {}, mems |-> {}, at |-> [p \in Pointers |-> NULL],
              twice |-> FALSE, next |-> 1]

Place(p, ps) == CHOOSE i \in DOMAIN ps : ps[i] = p

\* ::malloc or new, into each of these pointers.
New(h, ps) ==
    LET from == h.next
    IN  [h EXCEPT !.live = @ \cup (from .. from + Len(ps) - 1),
                  !.next = @ + Len(ps),
                  !.at = [p \in Pointers |->
                            IF p \in ToSet(ps) THEN from - 1 + Place(p, ps) ELSE @[p]]]

\* LibRaw's malloc and calloc: mem_ptr remembers the block unless its table
\* is full.
Malloc(h, ps) ==
    LET from == h.next
    IN  [New(h, ps) EXCEPT !.mems = IF Cardinality(@) + Len(ps) > MSIZE THEN @
                                    ELSE @ \cup (from .. from + Len(ps) - 1)]

\* The pointers are given up, and nothing is freed.
Forget(h, ps) == [h EXCEPT !.at = [p \in Pointers |-> IF p \in ps THEN NULL ELSE @[p]]]

\* free(p); p = NULL for each of these pointers that is not null, with
\* forget_ptr.  Blocks that the table never held are not in it to be forgotten.
Free(h, ps) ==
    LET at   == h.at
        gone == {at[p] : p \in ps} \ {NULL}
    IN  [Forget(h, ps) EXCEPT
            !.live = @ \ gone,
            !.mems = @ \ gone,
            !.twice = \/ @ \/ ~(gone \subseteq h.live)
                      \/ Cardinality(gone) < Cardinality({p \in ps : at[p] # NULL})]

\* cleanup: everything the table still remembers is freed.
Cleanup(h) ==
    LET mems == h.mems
    IN  [h EXCEPT !.twice = @ \/ ~(mems \subseteq h.live),
                  !.live = @ \ mems, !.mems = {}]
=============================================================================
