----------------------------- MODULE Multithread -----------------------------
(***************************************************************************)
(* The synchronisation demo of Multithread.c: THREAD_AMOUNT threads add    *)
(* one to a shared variable INCREMENTS times each, and then read it a last *)
(* time.  It is built with PTHREAD_SYNC defined, where a mutex guards each *)
(* addition and a barrier the last read, or without, where nothing does.   *)
(*                                                                         *)
(* validateArguments lets no other thread count than a positive one pass.  *)
(* The mutex, the barrier and the threads are gone once main has returned. *)
(***************************************************************************)
EXTENDS Integers, Pthreads

CONSTANTS
    THREAD_AMOUNT,  \* threads, the program's argument
    INCREMENTS      \* additions of a thread (20 in the code)

ASSUME AmountAssumption == THREAD_AMOUNT \in Nat \ {0}
ASSUME IncrementsAssumption == INCREMENTS \in Nat \ {0}

VARIABLES
    PTHREAD_SYNC,   \* built with synchronization; never changes
    sharedVariable,
    num,            \* num[t]: additions that t has completed
    val,            \* val[t]: what t read last
    mt_pc,          \* mt_pc[t]: where t is
    mutexSum,       \* threads that hold the mutex
    myBarrier,      \* threads blocked in the barrier
    created,        \* threads created so far
    exit_status     \* of the process

mtVars == <<PTHREAD_SYNC, sharedVariable, num, val, mt_pc, mutexSum,
            myBarrier, created, exit_status>>

Workers == 0 .. THREAD_AMOUNT - 1
Running == exit_status = "RUNNING"

MTInit ==
    /\ PTHREAD_SYNC \in BOOLEAN
    /\ sharedVariable = 0
    /\ num = [t \in Workers |-> 0]
    /\ val = [t \in Workers |-> 0]
    /\ mt_pc = [t \in Workers |-> "loop"]
    /\ mutexSum = {}
    /\ myBarrier = {}
    /\ created = 0
    /\ exit_status = "RUNNING"

-----------------------------------------------------------------------------
(* main                                                                    *)

CreateThread ==
    /\ Running
    /\ created < THREAD_AMOUNT
    /\ created' = created + 1
    /\ UNCHANGED <<PTHREAD_SYNC, sharedVariable, num, val, mt_pc, mutexSum,
                   myBarrier, exit_status>>

(* Fault: main goes on to join the threads there are.                      *)
CreateFails_GoesOn ==
    /\ Running
    /\ created < THREAD_AMOUNT
    /\ \A t \in 0 .. created - 1 : mt_pc[t] = "exited"
    /\ exit_status' = "SUCCESS"
    /\ UNCHANGED <<PTHREAD_SYNC, sharedVariable, num, val, mt_pc, mutexSum,
                   myBarrier, created>>

(* main returns while the threads created so far run: they end with it.    *)
CreateFails ==
    /\ Running
    /\ created < THREAD_AMOUNT
    /\ exit_status' = "FAILURE"
    /\ UNCHANGED <<PTHREAD_SYNC, sharedVariable, num, val, mt_pc, mutexSum,
                   myBarrier, created>>

JoinAll ==
    /\ Running
    /\ created = THREAD_AMOUNT
    /\ \A t \in Workers : mt_pc[t] = "exited"
    /\ exit_status' = "SUCCESS"
    /\ UNCHANGED <<PTHREAD_SYNC, sharedVariable, num, val, mt_pc, mutexSum,
                   myBarrier, created>>

-----------------------------------------------------------------------------
(* simpleThread, by thread t                                               *)

Goes(t, from, to) ==
    /\ Running
    /\ t < created
    /\ mt_pc[t] = from
    /\ mt_pc' = [mt_pc EXCEPT ![t] = to]

LockSum(t) ==
    /\ num[t] < INCREMENTS
    /\ Goes(t, "loop", "read")
    /\ IF PTHREAD_SYNC THEN Free(mutexSum) /\ mutexSum' = {t}
                       ELSE mutexSum' = mutexSum
    /\ UNCHANGED <<PTHREAD_SYNC, sharedVariable, num, val, myBarrier, created,
                   exit_status>>

ReadShared(t) ==
    /\ Goes(t, "read", "write")
    /\ val' = [val EXCEPT ![t] = sharedVariable]
    /\ UNCHANGED <<PTHREAD_SYNC, sharedVariable, num, mutexSum, myBarrier,
                   created, exit_status>>

WriteShared(t) ==
    /\ Goes(t, "write", "unlock")
    /\ sharedVariable' = val[t] + 1
    /\ UNCHANGED <<PTHREAD_SYNC, num, val, mutexSum, myBarrier, created,
                   exit_status>>

(* Fault: the mutex stays locked.                                          *)
UnlockSum_Missing(t) ==
    /\ Goes(t, "unlock", "loop")
    /\ num' = [num EXCEPT ![t] = @ + 1]
    /\ UNCHANGED <<PTHREAD_SYNC, sharedVariable, val, mutexSum, myBarrier,
                   created, exit_status>>

UnlockSum(t) ==
    /\ Goes(t, "unlock", "loop")
    /\ mutexSum' = IF PTHREAD_SYNC THEN {} ELSE mutexSum
    /\ num' = [num EXCEPT ![t] = @ + 1]
    /\ UNCHANGED <<PTHREAD_SYNC, sharedVariable, val, myBarrier, created,
                   exit_status>>

(* Fault: the last read does not wait for the other threads.               *)
ArriveBarrier_Missing(t) ==
    /\ num[t] = INCREMENTS
    /\ Goes(t, "loop", "barrier")
    /\ UNCHANGED <<PTHREAD_SYNC, sharedVariable, num, val, mutexSum, myBarrier,
                   created, exit_status>>

ArriveBarrier(t) ==
    /\ num[t] = INCREMENTS
    /\ Goes(t, "loop", "barrier")
    /\ myBarrier' = IF PTHREAD_SYNC THEN Arrived(myBarrier, t, Workers)
                                    ELSE myBarrier
    /\ UNCHANGED <<PTHREAD_SYNC, sharedVariable, num, val, mutexSum, created,
                   exit_status>>

SeeFinal(t) ==
    /\ Released(myBarrier, t)
    /\ Goes(t, "barrier", "exited")
    /\ val' = [val EXCEPT ![t] = sharedVariable]
    /\ UNCHANGED <<PTHREAD_SYNC, sharedVariable, num, mutexSum, myBarrier,
                   created, exit_status>>

simpleThread(t) ==
    \/ LockSum(t) \/ ReadShared(t) \/ WriteShared(t) \/ UnlockSum(t)
    \/ ArriveBarrier(t) \/ SeeFinal(t)

MTMain == CreateThread \/ CreateFails \/ JoinAll

MTNext == MTMain \/ \E t \in Workers : simpleThread(t)

(* The system's scheduler leaves no thread that can run waiting for ever.  *)
MTSpec ==
    /\ MTInit /\ [][MTNext]_mtVars
    /\ WF_mtVars(MTMain)
    /\ \A t \in Workers : WF_mtVars(simpleThread(t))

-----------------------------------------------------------------------------
(* The value a thread "sees" as the final one is final: with               *)
(* synchronization no thread adds to the variable after any has passed the *)
(* barrier.                                                                *)
SeenIsFinal ==
    PTHREAD_SYNC =>
        \A t \in Workers : mt_pc[t] = "exited" => val[t] = sharedVariable

(* What the demo demonstrates: when it succeeds every thread has made all  *)
(* its additions, and with synchronization none of them is lost.  Without  *)
(* it nearly all of them may be, but never all: the variable ends at two   *)
(* or more, unless there is nothing more to add.                           *)
LostUpdatesBounded ==
    exit_status = "SUCCESS" =>
        LET all == THREAD_AMOUNT * INCREMENTS
            least == IF THREAD_AMOUNT = 1 THEN INCREMENTS
                     ELSE IF INCREMENTS = 1 THEN 1 ELSE 2
        IN  sharedVariable \in (IF PTHREAD_SYNC THEN all ELSE least) .. all

(* The process ends, with either status: the mutex and the barrier leave   *)
(* no thread waiting for ever.                                             *)
MultithreadEnds == <>(exit_status # "RUNNING")
=============================================================================
