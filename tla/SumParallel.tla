----------------------------- MODULE SumParallel -----------------------------
(***************************************************************************)
(* The sum workload of sumParallel.c: THREAD_COUNT threads add the         *)
(* elements of an array, a slice each, to one shared sum, and take the     *)
(* mutex for every single addition.  A[i] is i, and sum does not start at  *)
(* zero but at ELEMENT_COUNT.                                              *)
(*                                                                         *)
(* An addition is a load and a store of the sum; main_func starts and      *)
(* joins the threads and prints the sum.  psum is set to zero, which it    *)
(* is, and not used.                                                       *)
(***************************************************************************)
EXTENDS Integers, FiniteSetsExt, Pthreads

CONSTANTS
    THREAD_COUNT,   \* threads
    ELEMENT_COUNT   \* elements of the array

ASSUME SummersAssumption == THREAD_COUNT \in Nat \ {0}
ASSUME ElementsAssumption == ELEMENT_COUNT \in Nat

VARIABLES
    sum,            \* the shared sum
    started,        \* threads created so far
    joined,         \* all threads joined and the sum printed
    sum_pc,         \* sum_pc[t]: where thread t is
    added,          \* added[t]: its loop counter
    loaded,         \* loaded[t]: the sum it loaded last
    mutex           \* threads that hold the mutex

sumVars == <<sum, started, joined, sum_pc, added, loaded, mutex>>

SumThreads == 0 .. THREAD_COUNT - 1

(* Fault: the division rounds up.                                          *)
Slice_RoundedUp == (ELEMENT_COUNT + THREAD_COUNT - 1) \div THREAD_COUNT

(* The elements of each thread; what the division leaves over is nobody's. *)
Slice == ELEMENT_COUNT \div THREAD_COUNT

(* What main prints as the correct sum: temp, which it counts up by one    *)
(* for each element.                                                       *)
correct_sum == ELEMENT_COUNT

(* The element that thread t adds in turn i of its loop; A[e] is e.        *)
Element(t, i) == t * Slice + i

SumInit ==
    /\ sum = ELEMENT_COUNT
    /\ started = 0
    /\ joined = FALSE
    /\ sum_pc = [t \in SumThreads |-> "lock"]
    /\ added = [t \in SumThreads |-> 0]
    /\ loaded = [t \in SumThreads |-> 0]
    /\ mutex = {}

(* Fault: main_func does not wait for the last thread.                     *)
JoinSum_OneLess ==
    /\ ~joined
    /\ started = THREAD_COUNT
    /\ \A t \in SumThreads \ {THREAD_COUNT - 1} :
          sum_pc[t] = "lock" /\ added[t] = Slice
    /\ joined' = TRUE
    /\ UNCHANGED <<sum, started, sum_pc, added, loaded, mutex>>

StartThread ==
    /\ started < THREAD_COUNT
    /\ started' = started + 1
    /\ UNCHANGED <<sum, joined, sum_pc, added, loaded, mutex>>

JoinSum ==
    /\ ~joined
    /\ started = THREAD_COUNT
    /\ \A t \in SumThreads : sum_pc[t] = "lock" /\ added[t] = Slice
    /\ joined' = TRUE
    /\ UNCHANGED <<sum, started, sum_pc, added, loaded, mutex>>

-----------------------------------------------------------------------------
(* SumParallel, by thread t                                                *)

(* Fault: the lock is commented out.                                       *)
Lock_Missing(t) ==
    /\ t < started
    /\ added[t] < Slice
    /\ sum_pc[t] = "lock"
    /\ sum_pc' = [sum_pc EXCEPT ![t] = "load"]
    /\ UNCHANGED <<sum, started, joined, added, loaded, mutex>>

Lock(t) ==
    /\ t < started
    /\ added[t] < Slice
    /\ sum_pc[t] = "lock"
    /\ Free(mutex)
    /\ mutex' = {t}
    /\ sum_pc' = [sum_pc EXCEPT ![t] = "load"]
    /\ UNCHANGED <<sum, started, joined, added, loaded>>

LoadSum(t) ==
    /\ sum_pc[t] = "load"
    /\ loaded' = [loaded EXCEPT ![t] = sum]
    /\ sum_pc' = [sum_pc EXCEPT ![t] = "store"]
    /\ UNCHANGED <<sum, started, joined, added, mutex>>

StoreSum(t) ==
    /\ sum_pc[t] = "store"
    /\ sum' = loaded[t] + Element(t, added[t])
    /\ sum_pc' = [sum_pc EXCEPT ![t] = "unlock"]
    /\ UNCHANGED <<started, joined, added, loaded, mutex>>

(* Fault: the mutex is never released.                                     *)
Unlock_Missing(t) ==
    /\ sum_pc[t] = "unlock"
    /\ added' = [added EXCEPT ![t] = @ + 1]
    /\ sum_pc' = [sum_pc EXCEPT ![t] = "lock"]
    /\ UNCHANGED <<sum, started, joined, loaded, mutex>>

Unlock(t) ==
    /\ sum_pc[t] = "unlock"
    /\ mutex' = {}
    /\ added' = [added EXCEPT ![t] = @ + 1]
    /\ sum_pc' = [sum_pc EXCEPT ![t] = "lock"]
    /\ UNCHANGED <<sum, started, joined, loaded>>

AddSlice(t) == Lock(t) \/ LoadSum(t) \/ StoreSum(t) \/ Unlock(t)

main_func == StartThread \/ JoinSum

SumNext == main_func \/ \E t \in SumThreads : AddSlice(t)

(* The system's scheduler leaves no thread that can run waiting for ever.  *)
(* The mutex need not be fair: every thread asks for it Slice times only.  *)
SumSpec ==
    /\ SumInit /\ [][SumNext]_sumVars
    /\ WF_sumVars(main_func)
    /\ \A t \in SumThreads : WF_sumVars(AddSlice(t))

-----------------------------------------------------------------------------
(* The additions of thread t that have reached the sum.                    *)
Stored(t) == added[t] + (IF sum_pc[t] = "unlock" THEN 1 ELSE 0)

(* A thread adds elements of the array only.                               *)
SumTypeOK ==
    /\ sum \in Nat
    /\ started \in 0 .. THREAD_COUNT
    /\ joined \in BOOLEAN
    /\ sum_pc \in [SumThreads -> {"lock", "load", "store", "unlock"}]
    /\ added \in [SumThreads -> 0 .. Slice]
    /\ \A t \in SumThreads :
          sum_pc[t] # "lock" => Element(t, added[t]) < ELEMENT_COUNT
    /\ loaded \in [SumThreads -> Nat]
    /\ mutex \subseteq SumThreads

(* No addition is lost: what a store leaves in the sum is what the sum     *)
(* was, and the element, whoever else loaded it in the meantime.           *)
NoLostUpdate ==
    [][\A t \in SumThreads :
          StoreSum(t) => sum' = sum + Element(t, added[t])]_sumVars

(* The sum is what it started with and the elements stored so far, each of *)
(* them once, whichever threads stored them.  When it is printed, what the *)
(* division into slices leaves over, the last elements of the array, is    *)
(* missing from it, and nothing else (102720 elements and 8 threads leave  *)
(* nothing over).                                                          *)
SumAccounts ==
    LET done == UNION {{Element(t, i) : i \in 0 .. Stored(t) - 1} :
                          t \in SumThreads}
    IN  /\ sum = ELEMENT_COUNT + SumFunction([e \in done |-> e])
        /\ joined =>
              done = 0 .. ELEMENT_COUNT - (ELEMENT_COUNT % THREAD_COUNT) - 1

(* sumParallel.c:185 prints "correct sum", sumParallel.c:162 the sum: when *)
(* the threads are joined the two are equal.                               *)
PrintsCorrectSum == joined => sum = correct_sum

(* The program ends.                                                       *)
SumEnds == <>joined
=============================================================================
