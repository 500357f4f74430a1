----------------------------- MODULE Compressor -----------------------------
(* CompressorStageOperationProcessor.process: the picture's gradients, the   *)
(* attenuation, and the Poisson equation solved on coarser and then finer    *)
(* lattices, each step of it by threads that share the columns of one array. *)
(* Numbers are abstracted to what decides the control: how far a step was    *)
(* from the one before.  Progress is counted in thousandths.                 *)
EXTENDS Arr2, Integers, SequencesExt

CONSTANTS
    Sizes,          \* sizes of pictures
    ThreadsNum,     \* threads_num, 16 in the code
    RowsPerReport,  \* columns between two reports, 100 in the code
    StepsMax        \* steps_max, 10000 in the code

ASSUME CompressorAssumption ==
    /\ Sizes \subseteq [w : Nat \ {0}, h : Nat \ {0}]
    /\ {ThreadsNum, RowsPerReport, StepsMax} \subseteq Nat \ {0}

VARIABLES
    size,       \* of the bitmap
    pc,         \* where the calling thread is
    heap,       \* the arrays
    column,     \* the next column of div_G
    level,      \* p: the lattice that is solved, 0 the finest
    start,      \* share of the progress the coarser lattices had
    step, best, \* the solver's step and progress_max
    q,          \* the thread the calling thread creates or joins
    threads,    \* the solver's threads
    inew,       \* each column of Inew: as in the last step, being written, or new
    told,       \* progress reported last
    refused,    \* the listener has said "cancel"
    result      \* what process returned, and what it did to the bitmap

mainVars == <<size, pc, heap, column, level, start, step, best, q, told, refused, result>>
vars == <<mainVars, threads, inew>>

Threads == 1 .. ThreadsNum

Locals(names) == {<<n, 0>> : n \in names}

ThreadHandles(t) == {<<"thread_Inew", t>>, <<"thread_rho", t>>}

RhoHandles == {<<"Rho", k>> : k \in 0 .. 2}

CompressHandles ==
    Locals({"r_chan", "g_chan", "b_chan", "H", "grad_H_x", "grad_H_y", "Phi", "div_G", "compress_I"})

LatticeHandles == Locals({"lattice_rho", "lattice_I", "Q22"}) \cup RhoHandles

SolverHandles == Locals({"I0", "rho", "I", "Inew"})

AllHandles ==
    CompressHandles \cup LatticeHandles \cup SolverHandles \cup UNION {ThreadHandles(t) : t \in Threads}

ASSUME HandlesAssumption == Handles = AllHandles

V(n) == <<n, 0>>

\* arr2<float> names(dim.w, dim.h).
Declare(h, names, dim) == Construct(h, [v \in Locals(names) |-> dim])

-----------------------------------------------------------------------------
Idle == [i1 |-> 0, i2 |-> 0, i |-> 0, at |-> "none", saw |-> "old"]

Init ==
    /\ size \in Sizes /\ pc = "start" /\ heap = EmptyHeap
    /\ column = 0 /\ level = 0 /\ start = 0 /\ step = 0 /\ best = 0 /\ q = 1
    /\ threads = [t \in Threads |-> Idle] /\ inew = <<>>
    /\ told = 0 /\ refused = FALSE /\ result = [returned |-> "nothing", bitmap |-> "original"]

\* The listener is told, and answers whether to go on.
Report(progress, onward, otherwise) ==
    /\ told' = progress
    /\ \E ok \in BOOLEAN :
          /\ refused' = (refused \/ ~ok)
          /\ pc' = IF ok THEN onward ELSE otherwise

NoReport(next) == pc' = next /\ UNCHANGED <<told, refused>>

KeepSolver == UNCHANGED <<level, start, step, best, q, threads, inew>>

\* Compress: the logarithms of the luminosity.
Luminosity ==
    /\ pc = "start"
    /\ heap' = Declare(Declare(heap, {"H"}, size), {"r_chan", "g_chan", "b_chan"}, size)
    /\ Report(10, "gradient", "cancelled")
    /\ UNCHANGED <<size, column, result>> /\ KeepSolver

Gradient ==
    /\ pc = "gradient"
    /\ heap' = Declare(heap, {"grad_H_x", "grad_H_y"}, size)
    /\ Report(20, "phi", "cancelled")
    /\ UNCHANGED <<size, column, result>> /\ KeepSolver

\* BuildPhi, whose own arrays end with it, and div_G.
Attenuation ==
    /\ pc = "phi"
    /\ heap' = Declare(heap, {"Phi", "div_G"}, size)
    /\ NoReport("div_G")
    /\ UNCHANGED <<size, column, result>> /\ KeepSolver

\* The columns of div_G up to the next one that is reported.
Divergence ==
    /\ pc = "div_G" /\ column < size.w - 1
    /\ column' = column + RowsPerReport
    /\ Report(20 + (80 * column) \div (size.w - 1), "div_G", "cancelled")
    /\ UNCHANGED <<size, heap, result>> /\ KeepSolver

-----------------------------------------------------------------------------
LatticeSize(s, k) ==
    LET by == <<1, 2, 4>>[k + 1]
    IN  [w |-> s.w \div by, h |-> s.h \div by]

\* How often a picture is halved: at most twice, while both sides exceed 1.
Divides(s) ==
    LET shrinks(k) == LatticeSize(s, k).w > 1 /\ LatticeSize(s, k).h > 1
    IN  IF ~shrinks(0) THEN 0 ELSE IF ~shrinks(1) THEN 1 ELSE 2

\* exp(divides - p), in hundredths of exp(0).
Exp(n) == <<100, 272, 739>>[n + 1]

Width(s, k) ==
    LET d == Divides(s)
    IN  (1000 * Exp(d - k)) \div FoldSet(LAMBDA j, sum : sum + Exp(d - j), 0, 0 .. d)

\* SolvePoissonNeimanMultiLattice: the right side on every lattice, and a
\* first solution of the coarsest lattice's size.
Lattices ==
    LET d    == Divides(size)
        rho  == Copy(heap, [v \in {V("lattice_rho"), <<"Rho", 0>>} |-> V("div_G")])
        new  == {V("lattice_I")} \cup {<<"Rho", k>> : k \in 1 .. d}
    IN  /\ pc = "div_G" /\ column >= size.w - 1
        /\ heap' = Construct(rho, [v \in new |-> LatticeSize(size, IF v[1] = "Rho" THEN v[2] ELSE d)])
        /\ level' = d /\ start' = 0
        /\ NoReport("solve")
        /\ UNCHANGED <<size, column, step, best, q, threads, inew, result>>

\* SolvePoissonNeiman is entered: its arguments share the caller's arrays.
Solve ==
    LET dim    == heap.dim[<<"Rho", level>>]
        shared == Copy(heap, [v \in Locals({"I0", "rho"}) |->
                             IF v[1] = "rho" THEN <<"Rho", level>> ELSE V("lattice_I")])
    IN  /\ pc = "solve"
        /\ heap' = Declare(shared, {"I", "Inew"}, [w |-> dim.w + 2, h |-> dim.h + 2])
        /\ inew' = [c \in 0 .. dim.w + 1 |-> "old"]
        /\ step' = 0 /\ best' = 0 /\ q' = 1
        /\ NoReport("create")
        /\ UNCHANGED <<size, column, level, start, threads, result>>

RhoWidth == heap.dim[V("rho")].w

\* The columns i1 .. i2 - 1 of thread t (the code counts the threads from 0).
FirstOf(t, w) == (w \div ThreadsNum) * (t - 1) + 1

\* Mutant: the last thread takes no rest of the division.
EndWithoutRest(t, w) == (w \div ThreadsNum) * t + 1

\* Mutant: ranges overlap by one column.
EndOneLate(t, w) == IF t < ThreadsNum THEN (w \div ThreadsNum) * t + 2 ELSE w + 1

EndOf(t, w) == IF t < ThreadsNum THEN (w \div ThreadsNum) * t + 1 ELSE w + 1

\* A thread starts with its own counted handles of Inew and rho, and a
\* reference to the solver's I.
Create ==
    /\ pc = "create"
    /\ heap' = Copy(heap, [v \in ThreadHandles(q) |->
                             IF v[1] = "thread_rho" THEN V("rho") ELSE V("Inew")])
    /\ threads' = [threads EXCEPT ![q] = [i1 |-> FirstOf(q, RhoWidth), i2 |-> EndOf(q, RhoWidth),
                                          i |-> FirstOf(q, RhoWidth), at |-> "next", saw |-> "old"]]
    /\ q' = IF q < ThreadsNum THEN q + 1 ELSE 1
    /\ NoReport(IF q < ThreadsNum THEN "create" ELSE "join")
    /\ UNCHANGED <<size, column, level, start, step, best, inew, result>>

\* Mutant: threads are deleted and not joined.
JoinNot ==
    /\ pc = "join"
    /\ heap' = Destroy(heap, ThreadHandles(q))
    /\ UNCHANGED threads
    /\ q' = IF q < ThreadsNum THEN q + 1 ELSE 1
    /\ NoReport(IF q < ThreadsNum THEN "join" ELSE "judge")
    /\ UNCHANGED <<size, column, level, start, step, best, inew, result>>

\* join, and delete.
Join ==
    /\ pc = "join" /\ threads[q].at = "ended"
    /\ heap' = Destroy(heap, ThreadHandles(q))
    /\ threads' = [threads EXCEPT ![q] = Idle]
    /\ q' = IF q < ThreadsNum THEN q + 1 ELSE 1
    /\ NoReport(IF q < ThreadsNum THEN "join" ELSE "judge")
    /\ UNCHANGED <<size, column, level, start, step, best, inew, result>>

-----------------------------------------------------------------------------
(* A thread goes through its columns: the forward sweep reads Inew's column  *)
(* before, the backward sweep writes this one.  The first column's neighbour *)
(* belongs to another thread, which may be writing it.                       *)
KeepMain == UNCHANGED mainVars

\* Mutant: the column before is taken from I and not from Inew.
ForwardFromI(t) ==
    LET th == threads[t]
    IN  /\ th.at = "next" /\ th.i < th.i2
        /\ threads' = [threads EXCEPT ![t].at = "forward", ![t].saw = "old"]
        /\ UNCHANGED inew /\ KeepMain

Forward(t) ==
    LET th == threads[t]
    IN  /\ th.at = "next" /\ th.i < th.i2
        /\ threads' = [threads EXCEPT ![t].at = "forward", ![t].saw = inew[th.i - 1]]
        /\ UNCHANGED inew /\ KeepMain

Backward(t) ==
    LET th == threads[t]
    IN  /\ th.at = "forward"
        /\ threads' = [threads EXCEPT ![t].at = "backward",
                                      ![t].saw = IF @ = inew[th.i - 1] THEN @ ELSE "part"]
        /\ inew' = [inew EXCEPT ![th.i] = "part"]
        /\ KeepMain

NextColumn(t) ==
    /\ threads[t].at = "backward"
    /\ threads' = [threads EXCEPT ![t].at = "next", ![t].i = @ + 1]
    /\ inew' = [inew EXCEPT ![threads[t].i] = "new"]
    /\ KeepMain

End(t) ==
    /\ threads[t].at = "next" /\ threads[t].i >= threads[t].i2
    /\ threads' = [threads EXCEPT ![t].at = "ended"]
    /\ UNCHANGED inew /\ KeepMain

Run(t) == Forward(t) \/ Backward(t) \/ NextColumn(t) \/ End(t)

-----------------------------------------------------------------------------
\* What a step may find, and the progress that makes: dpd far from stop_dpd,
\* near it, or not a number, which is never "near" (fmin(NaN, 0.999) is 0.999).
\* The first step's dpd is 1, or not a number.
Outcomes(s) ==
    [near : {FALSE}, progress : {4, 999}]
    \cup IF s = 0 THEN {} ELSE [near : {FALSE}, progress : {0, 500}] \cup [near : {TRUE}, progress : {999}]

Progress(done) == 100 + (900 * (1000 * start + Width(size, level) * done)) \div 1000000

Best(o) == IF best < o.progress THEN o.progress ELSE best

\* Mutant: a step that gains nothing is not counted.
CountingGains(o) == IF o.progress < best THEN step ELSE step + 1

Counting(o) == step + 1

\* The threads have been joined: boundaries and mean, and how far it is.
Judge ==
    /\ pc = "judge"
    /\ inew' = [c \in DOMAIN inew |-> "old"]
    /\ \E o \in Outcomes(step) :
          /\ best' = Best(o) /\ step' = Counting(o)
          /\ Report(Progress(best'),
                    IF (o.near /\ step > 1) \/ step' = StepsMax THEN "solved" ELSE "create",
                    "solver_cancelled")
    /\ UNCHANGED <<size, heap, column, level, start, q, threads, result>>

\* Mutant: the enlarged solution has the size of the lattice it comes from.
RefineSameSize ==
    LET left == Destroy(heap, SolverHandles)
        q22  == Declare(left, {"Q22"}, LatticeSize(size, level))
    IN  /\ pc = "solved" /\ level > 0
        /\ heap' = Destroy(Assign(q22, V("lattice_I"), V("Q22")), {V("Q22")})
        /\ start' = start + Width(size, level)
        /\ level' = level - 1
        /\ NoReport("solve")
        /\ UNCHANGED <<size, column, step, best, q, threads, inew, result>>

\* A finer lattice starts from the coarser one's solution, enlarged.
Refine ==
    LET left == Destroy(heap, SolverHandles)
        q22  == Declare(left, {"Q22"}, LatticeSize(size, level - 1))
    IN  /\ pc = "solved" /\ level > 0
        /\ heap' = Destroy(Assign(q22, V("lattice_I"), V("Q22")), {V("Q22")})
        /\ start' = start + Width(size, level)
        /\ level' = level - 1
        /\ NoReport("solve")
        /\ UNCHANGED <<size, column, step, best, q, threads, inew, result>>

\* The finest lattice is solved; what the listener answers is not looked at.
Finest ==
    /\ pc = "solved" /\ level = 0
    /\ heap' = Destroy(Copy(heap, [v \in Locals({"compress_I"}) |-> V("lattice_I")]), SolverHandles \cup LatticeHandles)
    /\ Report(1000, "draw", "draw")
    /\ UNCHANGED <<size, column, level, start, step, best, q, threads, inew, result>>

\* Mutant: what there is of the solution comes back.
SolverCancelledWithI ==
    /\ pc = "solver_cancelled"
    /\ heap' = Declare(Destroy(heap, SolverHandles \cup LatticeHandles), {"compress_I"}, size)
    /\ NoReport("draw")
    /\ UNCHANGED <<size, column, level, start, step, best, q, threads, inew, result>>

\* A refusal comes back as an empty array.
SolverCancelled ==
    /\ pc = "solver_cancelled"
    /\ heap' = Declare(Destroy(heap, SolverHandles \cup LatticeHandles), {"compress_I"}, NoDim)
    /\ NoReport("draw")
    /\ UNCHANGED <<size, column, level, start, step, best, q, threads, inew, result>>

Draw ==
    /\ pc = "draw" /\ heap.dim[V("compress_I")] # NoDim
    /\ heap' = Destroy(heap, CompressHandles)
    /\ result' = [returned |-> "true", bitmap |-> "compressed"]
    /\ NoReport("returned")
    /\ UNCHANGED <<size, column>> /\ KeepSolver

Cancelled ==
    /\ \/ pc = "cancelled"
       \/ pc = "draw" /\ heap.dim[V("compress_I")] = NoDim
    /\ heap' = Destroy(heap, CompressHandles)
    /\ result' = [result EXCEPT !.returned = "false"]
    /\ NoReport("returned")
    /\ UNCHANGED <<size, column>> /\ KeepSolver

Compress ==
    \/ Luminosity \/ Gradient \/ Attenuation \/ Divergence
    \/ Lattices \/ Solve \/ Create \/ Join \/ Judge \/ Refine \/ Finest
    \/ SolverCancelled \/ Draw \/ Cancelled

Returned == pc = "returned"

Over == Returned /\ UNCHANGED vars

Next == Compress \/ (\E t \in Threads : Run(t)) \/ Over

Spec == Init /\ [][Next]_vars /\ WF_vars(Compress) /\ \A t \in Threads : WF_vars(Run(t))

-----------------------------------------------------------------------------
Ats == {"none", "next", "forward", "backward", "ended"}

Running(t) == threads[t].at \notin {"none", "ended"}

\* No column is skipped, however few columns and many threads there are: when
\* the step is judged every inner column is new, and the margins are not.
EachColumnComputed ==
    pc = "judge" => \A c \in DOMAIN inew : inew[c] = IF c \in 1 .. RhoWidth THEN "new" ELSE "old"

\* No column is computed twice, by one thread or by two: what is new stays so
\* until the calling thread begins the next step.
NoColumnTwice ==
    [][\A c \in DOMAIN inew : inew[c] = "new" /\ c \in DOMAIN inew' => inew'[c] # "part"]_vars

\* A column is computed from the new one before it, never from half of one;
\* only the first of a range takes what the neighbour thread happens to have.
ColumnsAreFresh ==
    \A t \in Threads : threads[t].at = "backward" /\ threads[t].i > threads[t].i1 => threads[t].saw = "new"

\* No array goes too early or too late: the calling thread changes I, frees
\* arrays or returns only when no thread of the solver runs, those that run
\* find the arrays they refer to, every array counts its holders, and when
\* process returns, by whichever way, every array has been deleted.
ArraysAreSafe ==
    /\ \A t \in Threads : Running(t) =>
           /\ pc \in {"create", "join"}
           /\ \A v \in ThreadHandles(t) \cup {V("I")} : heap.holds[v] # None
    /\ Counted(heap)
    /\ Returned => Unused(heap) = Blocks

\* Each lattice's first solution and right side have the same size, the one
\* the loops of the solver run over.
SolutionFitsLattice ==
    pc = "solve" => heap.dim[V("lattice_I")] = heap.dim[<<"Rho", level>>]

\* After a refusal the listener is not called again, the bitmap is left as it
\* was and process returns false; the answer to the last report is ignored.
CancelLeavesBitmap ==
    /\ result.returned = "false" => refused /\ result.bitmap = "original"
    /\ result.returned = "true" /\ refused => told = 1000
    /\ refused => pc \in {"cancelled", "solver_cancelled", "draw", "returned"}

\* process returns, whatever the threads' order, the numbers and the answers.
CompressReturns == <>Returned
=============================================================================
