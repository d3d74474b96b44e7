------------------------------ MODULE Pthreads ------------------------------
(***************************************************************************)
(* The parts of the POSIX threads library that the workloads use, by what  *)
(* they do.  A barrier is the set of threads blocked in it, a mutex the    *)
(* set of threads that hold it.                                            *)
(***************************************************************************)

(* pthread_barrier_wait by thread t, on a barrier initialised to the       *)
(* number of these threads: the last one to arrive releases all of them.   *)
Arrived(barrier, t, threads) ==
    IF barrier \union {t} = threads THEN {} ELSE barrier \union {t}

(* A thread that has arrived returns from the call once it is released.    *)
Released(barrier, t) == t \notin barrier

(* pthread_mutex_lock returns while nobody holds the mutex.                *)
Free(mutex) == mutex = {}
=============================================================================
