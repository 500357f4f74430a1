-------------------------------- MODULE Arr2 --------------------------------
(* The counted arrays of the compressor (arr2 and counted_link): a variable  *)
(* of the program holds a block or none, and every block counts its holders. *)
(* A block whose counter comes to zero is deleted, its number free again.    *)
EXTENDS Naturals, FiniteSets, Functions

CONSTANTS
    Handles,    \* the program's variables of this type
    Blocks,     \* the blocks the C++ heap can give
    None        \* what a variable outside its scope holds

ASSUME Arr2Assumption == IsFiniteSet(Handles) /\ None \notin Blocks

\* An allocation that fails is left out: there is a block for every variable.
ASSUME BlocksAssumption == IsFiniteSet(Blocks) /\ Cardinality(Handles) <= Cardinality(Blocks)

NoDim == [w |-> 0, h |-> 0]

Dims == [w : Nat, h : Nat]

Heaps == [holds : [Handles -> Blocks \cup {None}], dim : [Handles -> Dims], counter : [Blocks -> Nat]]

EmptyHeap == [holds |-> [v \in Handles |-> None], dim |-> [v \in Handles |-> NoDim],
              counter |-> [b \in Blocks |-> 0]]

Holders(h, b) == {v \in Handles : h.holds[v] = b}

Unused(h) == {b \in Blocks : h.counter[b] = 0}

\* Each variable v that dims gives a size begins to live, and holds at[v].
Hold(h, at, dims) ==
    [holds   |-> [v \in Handles |-> IF v \in DOMAIN dims THEN at[v] ELSE h.holds[v]],
     dim     |-> [v \in Handles |-> IF v \in DOMAIN dims THEN dims[v] ELSE h.dim[v]],
     counter |-> [b \in Blocks |-> h.counter[b] + Cardinality({v \in DOMAIN dims : at[v] = b})]]

\* arr2(width, height), and the constructor that copies the elements: every
\* variable gets a block of its own, and the size it is given.
Construct(h, dims) == Hold(h, CHOOSE at \in Injection(DOMAIN dims, Unused(h)) : TRUE, dims)

\* arr2(const arr2&), of each variable from another.
Copy(h, from) ==
    Hold(h, [v \in DOMAIN from |-> h.holds[from[v]]], [v \in DOMAIN from |-> h.dim[from[v]]])

\* ~arr2, of each of these variables.
Destroy(h, vs) ==
    [holds   |-> [v \in Handles |-> IF v \in vs THEN None ELSE h.holds[v]],
     dim     |-> [v \in Handles |-> IF v \in vs THEN NoDim ELSE h.dim[v]],
     counter |-> [b \in Blocks |-> h.counter[b] - Cardinality(vs \cap Holders(h, b))]]

\* Mutant: the old block keeps its counter.
AssignKeeps(h, v, w) == IF v = w THEN h ELSE Copy(h, [x \in {v} |-> w])

\* v = w: the block that v held has one holder less, and is deleted with the
\* last one.
Assign(h, v, w) == IF v = w THEN h ELSE Copy(Destroy(h, {v}), [x \in {v} |-> w])

\* Every counter is the number of the variables that hold its block.
Counted(h) == \A b \in Blocks : h.counter[b] = Cardinality(Holders(h, b))
=============================================================================
