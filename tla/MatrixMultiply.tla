--------------------------- MODULE MatrixMultiply ---------------------------
(***************************************************************************)
(* The matrix workload of MatrixMultiply.cpp.  threadedmult fills A and B, *)
(* starts NUM_CORES threads, each with a slice of rows, and joins them;    *)
(* then the product is printed.  Each thread, ITERATIONS times, waits at   *)
(* the barrier, adds to its rows of C its rows of A times all of B, waits  *)
(* again, and computes its rows of B anew from its rows of C.              *)
(*                                                                         *)
(* Matrices are square (Matrix.h: n = m = 4); an entry is named by its row *)
(* and column.                                                             *)
(***************************************************************************)
EXTENDS Integers, FiniteSetsExt, Pthreads

CONSTANTS
    NUM_CORES,      \* threads
    n,              \* rows and columns of a matrix
    ITERATIONS      \* times each thread multiplies (10 in the code)

ASSUME ThreadsAssumption == NUM_CORES \in Nat \ {0}
ASSUME OrderAssumption == n \in Nat \ {0}
ASSUME IterationsAssumption == ITERATIONS \in Nat \ {0}

VARIABLES
    spawned,    \* threads created so far
    printed,    \* all threads joined and C printed
    pc,         \* pc[t]: where thread t is
    count,      \* count[t]: iterations it has completed
    at,         \* at[t]: <<i, k, j>>, its loop counters
    barrier,    \* threads blocked in the barrier
    B, C        \* the matrices that change

matrixVars == <<spawned, printed, pc, count, at, barrier, B, C>>

MatrixThreads == 0 .. NUM_CORES - 1
Rows == 0 .. n - 1
Entries == Rows \X Rows

A == [x \in Entries |-> n * x[1] + x[2] + 1]
InitialB == [x \in Entries |-> n * x[1] + x[2] + 2]
InitialC == [x \in Entries |-> 0]

(* Fault: the rows that the division leaves over are nobody's.             *)
upperbound_Truncated(t) == (t + 1) * (n \div NUM_CORES)

(* The rows of thread t; the last one takes what the division leaves over. *)
lowerbound(t) == t * (n \div NUM_CORES)
upperbound(t) ==
    IF t = NUM_CORES - 1 THEN n ELSE (t + 1) * (n \div NUM_CORES)

(* Fault: the innermost counter runs one too far.                          *)
Advanced_TooFar(x, terms) ==
    IF x[3] < terms THEN <<x[1], x[2], x[3] + 1>>
    ELSE IF x[2] + 1 < n THEN <<x[1], x[2] + 1, 0>>
    ELSE <<x[1] + 1, 0, 0>>

(* The loop counters after one turn of the innermost of the nested loops.  *)
Advanced(x, terms) ==
    IF x[3] + 1 < terms THEN <<x[1], x[2], x[3] + 1>>
    ELSE IF x[2] + 1 < n THEN <<x[1], x[2] + 1, 0>>
    ELSE <<x[1] + 1, 0, 0>>

MatrixInit ==
    /\ spawned = 0
    /\ printed = FALSE
    /\ pc = [t \in MatrixThreads |-> "top"]
    /\ count = [t \in MatrixThreads |-> 0]
    /\ at = [t \in MatrixThreads |-> <<lowerbound(t), 0, 0>>]
    /\ barrier = {}
    /\ B = InitialB
    /\ C = InitialC

-----------------------------------------------------------------------------
(* threadedmult                                                            *)

(* Fault: one thread less is created than the barrier is made for.         *)
Spawn_OneLess ==
    /\ spawned < NUM_CORES - 1
    /\ spawned' = spawned + 1
    /\ UNCHANGED <<printed, pc, count, at, barrier, B, C>>

Spawn ==
    /\ spawned < NUM_CORES
    /\ spawned' = spawned + 1
    /\ UNCHANGED <<printed, pc, count, at, barrier, B, C>>

JoinAndPrint ==
    /\ ~printed
    /\ spawned = NUM_CORES
    /\ \A t \in MatrixThreads : pc[t] = "done"
    /\ printed' = TRUE
    /\ UNCHANGED <<spawned, pc, count, at, barrier, B, C>>

-----------------------------------------------------------------------------
(* matrixmult, by thread t                                                 *)

Move(t, from, to) == pc[t] = from /\ pc' = [pc EXCEPT ![t] = to]

InSlice(t) == at[t][1] < upperbound(t)

(* Fault: a thread begins an iteration without waiting for the others.     *)
FirstWait_Missing(t) ==
    /\ t < spawned
    /\ Move(t, "top", "first barrier")
    /\ UNCHANGED <<spawned, printed, count, at, barrier, B, C>>

FirstWait(t) ==
    /\ t < spawned
    /\ Move(t, "top", "first barrier")
    /\ barrier' = Arrived(barrier, t, MatrixThreads)
    /\ UNCHANGED <<spawned, printed, count, at, B, C>>

BeginMultiply(t) ==
    /\ Released(barrier, t)
    /\ Move(t, "first barrier", "multiply")
    /\ at' = [at EXCEPT ![t] = <<lowerbound(t), 0, 0>>]
    /\ UNCHANGED <<spawned, printed, count, barrier, B, C>>

(* One term is added to one entry of C.                                    *)
Multiply(t) ==
    /\ pc[t] = "multiply"
    /\ InSlice(t)
    /\ LET i == at[t][1]
           k == at[t][2]
           j == at[t][3]
       IN C' = [C EXCEPT ![<<i, k>>] = @ + A[<<i, j>>] * B[<<j, k>>]]
    /\ at' = [at EXCEPT ![t] = Advanced(at[t], n)]
    /\ UNCHANGED <<spawned, printed, pc, count, barrier, B>>

SecondWait(t) ==
    /\ ~InSlice(t)
    /\ Move(t, "multiply", "second barrier")
    /\ barrier' = Arrived(barrier, t, MatrixThreads)
    /\ UNCHANGED <<spawned, printed, count, at, B, C>>

BeginUpdate(t) ==
    /\ Released(barrier, t)
    /\ Move(t, "second barrier", "update")
    /\ at' = [at EXCEPT ![t] = <<lowerbound(t), 0, 0>>]
    /\ UNCHANGED <<spawned, printed, count, barrier, B, C>>

(* One entry of B is computed anew.                                        *)
Update(t) ==
    /\ pc[t] = "update"
    /\ InSlice(t)
    /\ LET x == <<at[t][1], at[t][2]>>
       IN B' = [B EXCEPT ![x] = C[x] \div 13 + A[x]]
    /\ at' = [at EXCEPT ![t] = Advanced(at[t], 1)]
    /\ UNCHANGED <<spawned, printed, pc, count, barrier, C>>

EndIteration(t) ==
    /\ ~InSlice(t)
    /\ Move(t, "update", IF count[t] + 1 < ITERATIONS THEN "top" ELSE "done")
    /\ count' = [count EXCEPT ![t] = @ + 1]
    /\ UNCHANGED <<spawned, printed, at, barrier, B, C>>

matrixmult(t) ==
    \/ FirstWait(t) \/ BeginMultiply(t) \/ Multiply(t)
    \/ SecondWait(t) \/ BeginUpdate(t) \/ Update(t) \/ EndIteration(t)

threadedmult == Spawn \/ JoinAndPrint

MatrixNext == threadedmult \/ \E t \in MatrixThreads : matrixmult(t)

(* The system's scheduler leaves no thread that can run waiting for ever.  *)
MatrixSpec ==
    /\ MatrixInit /\ [][MatrixNext]_matrixVars
    /\ WF_matrixVars(threadedmult)
    /\ \A t \in MatrixThreads : WF_matrixVars(matrixmult(t))

-----------------------------------------------------------------------------
(* The iterations by one thread alone: after r of them, B and C.           *)
Sequentially[r \in 0 .. ITERATIONS] ==
    IF r = 0 THEN [B |-> InitialB, C |-> InitialC]
    ELSE LET before == Sequentially[r - 1]
             product(x) == SumFunction(
                [j \in Rows |-> A[<<x[1], j>>] * before.B[<<j, x[2]>>]])
             newC == [x \in Entries |-> before.C[x] + product(x)]
         IN [B |-> [x \in Entries |-> newC[x] \div 13 + A[x]], C |-> newC]

(* A thread's loop counters stay within its slice and the matrices.        *)
MatrixTypeOK ==
    /\ spawned \in 0 .. NUM_CORES
    /\ printed \in BOOLEAN
    /\ pc \in [MatrixThreads ->
                 {"top", "first barrier", "multiply", "second barrier",
                  "update", "done"}]
    /\ count \in [MatrixThreads -> 0 .. ITERATIONS]
    /\ at \in [MatrixThreads -> (0 .. n) \X Rows \X Rows]
    /\ \A t \in MatrixThreads : at[t][1] \in lowerbound(t) .. upperbound(t)
    /\ barrier \subseteq MatrixThreads

(* What the next access of a thread reads and writes.                      *)
Reads(t) ==
    LET i == at[t][1]
        k == at[t][2]
        j == at[t][3]
    IN  IF ~InSlice(t) THEN {}
        ELSE IF pc[t] = "multiply" THEN {<<"C", i, k>>, <<"B", j, k>>}
        ELSE IF pc[t] = "update" THEN {<<"C", i, k>>}
        ELSE {}
Writes(t) ==
    LET i == at[t][1]
        k == at[t][2]
    IN  IF ~InSlice(t) THEN {}
        ELSE IF pc[t] = "multiply" THEN {<<"C", i, k>>}
        ELSE IF pc[t] = "update" THEN {<<"B", i, k>>}
        ELSE {}

(* No data race: two threads are never about to access the same entry, one *)
(* of them writing it.  Nothing but the two barriers keeps the reader of a *)
(* row of B from the thread that computes it anew, and nothing but the     *)
(* slices keeps two writers apart.                                         *)
NoRace ==
    \A t, u \in MatrixThreads :
        t # u => Writes(t) \intersect (Reads(u) \union Writes(u)) = {}

(* Each iteration works on the complete result of the one before, as one   *)
(* thread alone would: while any thread multiplies all of B is of the last *)
(* iteration, while any updates all of C is of this one, and what is       *)
(* printed is what the iterations compute.                                 *)
MatricesInStep ==
    /\ \A t \in MatrixThreads :
          /\ pc[t] = "multiply" => B = Sequentially[count[t]].B
          /\ pc[t] = "update" => C = Sequentially[count[t] + 1].C
    /\ printed => C = Sequentially[ITERATIONS].C

(* The program ends: no thread is left alone at a barrier.                 *)
MatrixEnds == <>printed
=============================================================================
