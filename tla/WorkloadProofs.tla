--------------------------- MODULE WorkloadProofs ---------------------------
(***************************************************************************)
(* Proofs about the workloads, for every number of threads and every size. *)
(***************************************************************************)
EXTENDS MatrixMultiply, SumParallel, Multithread, ArithmeticLemmas

-----------------------------------------------------------------------------
(* Multithread                                                             *)

Arrivals == {"barrier", "exited"}

(* With synchronization a thread has passed the barrier only if all have   *)
(* arrived at it, and what a thread has seen as final is still there.      *)
SeenInv ==
    /\ mt_pc \in [Workers -> {"loop", "read", "write", "unlock", "barrier",
                              "exited"}]
    /\ val \in [Workers -> Int]
    /\ sharedVariable \in Int
    /\ \A t \in Workers : t \in myBarrier => mt_pc[t] = "barrier"
    /\ myBarrier \subseteq Workers
    /\ PTHREAD_SYNC =>
          \A t \in Workers : mt_pc[t] \in Arrivals /\ t \notin myBarrier =>
              \A u \in Workers : mt_pc[u] \in Arrivals
    /\ SeenIsFinal

(* It holds at the start.                                                  *)
LEMMA SeenInit == MTInit => SeenInv
BY DEF MTInit, SeenInv, SeenIsFinal, Arrivals

(* The steps of a thread before the barrier: while one is still to come no *)
(* thread has passed the barrier.                                          *)
LEMMA SeenBefore ==
    ASSUME SeenInv, NEW t \in Workers,
           LockSum(t) \/ ReadShared(t) \/ WriteShared(t) \/ UnlockSum(t)
    PROVE  SeenInv'
<1>1. mt_pc[t] \notin Arrivals
  BY DEF LockSum, ReadShared, WriteShared, UnlockSum, Goes, Arrivals
<1>2. PTHREAD_SYNC => \A u \in Workers : mt_pc[u] # "exited"
  BY <1>1 DEF SeenInv, Arrivals
<1>3. /\ \A u \in Workers \ {t} : mt_pc'[u] = mt_pc[u] /\ val'[u] = val[u]
      /\ mt_pc'[t] \in {"loop", "read", "write", "unlock"}
      /\ mt_pc' \in [Workers -> {"loop", "read", "write", "unlock", "barrier",
                                 "exited"}]
      /\ UNCHANGED <<PTHREAD_SYNC, myBarrier>>
  BY DEF LockSum, ReadShared, WriteShared, UnlockSum, Goes, SeenInv
<1>4. val' \in [Workers -> Int] /\ sharedVariable' \in Int
  BY DEF LockSum, ReadShared, WriteShared, UnlockSum, Goes, SeenInv
<1>5. \A u \in Workers : u \in myBarrier => mt_pc'[u] = "barrier"
  BY <1>1, <1>3 DEF SeenInv, Arrivals
<1>6. PTHREAD_SYNC => \A u \in Workers : mt_pc'[u] # "exited"
  BY <1>2, <1>3
<1>7. ASSUME PTHREAD_SYNC, NEW u \in Workers, mt_pc'[u] \in Arrivals,
             u \notin myBarrier
      PROVE  FALSE
  <2>1. u # t /\ mt_pc[u] \in Arrivals
    BY <1>3, <1>7 DEF Arrivals
  <2> QED
    BY <1>1, <1>7, <2>1 DEF SeenInv
<1> QED
  BY <1>3, <1>4, <1>5, <1>6, <1>7 DEF SeenInv, SeenIsFinal

(* The last to arrive at the barrier releases everyone.                    *)
LEMMA SeenArrives ==
    ASSUME SeenInv, NEW t \in Workers, ArriveBarrier(t)
    PROVE  SeenInv'
<1>1. mt_pc[t] = "loop" /\ mt_pc' = [mt_pc EXCEPT ![t] = "barrier"]
  BY DEF ArriveBarrier, Goes
<1>2. UNCHANGED <<PTHREAD_SYNC, sharedVariable, val>>
  BY DEF ArriveBarrier
<1>3. /\ mt_pc' \in [Workers -> {"loop", "read", "write", "unlock", "barrier",
                                 "exited"}]
      /\ mt_pc'[t] = "barrier"
      /\ \A u \in Workers \ {t} : mt_pc'[u] = mt_pc[u]
  BY <1>1 DEF SeenInv
<1>4. myBarrier' \in {myBarrier, {}, myBarrier \union {t}}
  BY DEF ArriveBarrier, Arrived
<1>5. /\ myBarrier' \subseteq Workers
      /\ \A u \in Workers : u \in myBarrier' => mt_pc'[u] = "barrier"
  BY <1>1, <1>3, <1>4 DEF SeenInv
<1>6. PTHREAD_SYNC => \A u \in Workers \ {t} :
                          mt_pc[u] \in Arrivals => u \in myBarrier
  BY <1>1 DEF SeenInv, Arrivals
<1>7. ASSUME PTHREAD_SYNC, NEW u \in Workers, mt_pc'[u] \in Arrivals,
             u \notin myBarrier', NEW x \in Workers
      PROVE  mt_pc'[x] \in Arrivals
  <2>1. CASE myBarrier \union {t} = Workers
    BY <1>3, <2>1 DEF SeenInv, Arrivals
  <2>2. CASE myBarrier \union {t} # Workers
    <3>1. myBarrier' = myBarrier \union {t}
      BY <1>7, <2>2 DEF ArriveBarrier, Arrived
    <3> QED
      BY <1>3, <1>6, <1>7, <3>1
  <2> QED
    BY <2>1, <2>2
<1>8. SeenIsFinal'
  BY <1>2, <1>3 DEF SeenInv, SeenIsFinal
<1> QED
  BY <1>2, <1>3, <1>5, <1>7, <1>8 DEF SeenInv

(* Every step keeps the invariant.                                         *)
LEMMA SeenNext == SeenInv /\ [MTNext]_mtVars => SeenInv'
<1> SUFFICES ASSUME SeenInv, [MTNext]_mtVars PROVE SeenInv'
  OBVIOUS
<1>1. CASE MTMain
  BY <1>1 DEF MTMain, CreateThread, CreateFails, JoinAll, SeenInv, SeenIsFinal
<1>2. ASSUME NEW t \in Workers, simpleThread(t) PROVE SeenInv'
  <2>1. CASE LockSum(t) \/ ReadShared(t) \/ WriteShared(t) \/ UnlockSum(t)
    BY <2>1, SeenBefore
  <2>2. CASE ArriveBarrier(t)
    BY <2>2, SeenArrives
  <2>3. CASE SeeFinal(t)
    <3>1. /\ mt_pc[t] = "barrier" /\ mt_pc' = [mt_pc EXCEPT ![t] = "exited"]
          /\ val' = [val EXCEPT ![t] = sharedVariable]
          /\ t \notin myBarrier
          /\ UNCHANGED <<PTHREAD_SYNC, sharedVariable, myBarrier>>
      BY <2>3 DEF SeeFinal, Goes, Released
    <3>2. /\ mt_pc' \in [Workers -> {"loop", "read", "write", "unlock",
                                     "barrier", "exited"}]
          /\ mt_pc'[t] = "exited" /\ val'[t] = sharedVariable
          /\ val' \in [Workers -> Int]
          /\ \A u \in Workers \ {t} : mt_pc'[u] = mt_pc[u] /\ val'[u] = val[u]
      BY <3>1 DEF SeenInv
    <3>3. \A u \in Workers : mt_pc'[u] \in Arrivals <=> mt_pc[u] \in Arrivals
      BY <3>1, <3>2 DEF Arrivals
    <3>4. SeenIsFinal'
      BY <3>1, <3>2 DEF SeenInv, SeenIsFinal
    <3> QED
      BY <3>1, <3>2, <3>3, <3>4 DEF SeenInv
  <2> QED
    BY <1>2, <2>1, <2>2, <2>3 DEF simpleThread
<1>3. CASE UNCHANGED mtVars
  BY <1>3 DEF mtVars, SeenInv, SeenIsFinal
<1> QED
  BY <1>1, <1>2, <1>3 DEF MTNext

(* With synchronization the value that a thread of the demo prints as the  *)
(* final one is final, for any number of threads and additions.            *)
THEOREM SeenIsFinalHolds == MTSpec => []SeenIsFinal
<1>1. SeenInv => SeenIsFinal
  BY DEF SeenInv
<1> QED
  BY <1>1, SeenInit, SeenNext, PTL DEF MTSpec

(* A thread within its addition, and the additions of it that have         *)
(* reached the variable.                                                   *)
Inside == {"read", "write", "unlock"}
Reached(t) == num[t] + (IF mt_pc[t] = "unlock" THEN 1 ELSE 0)
Reaches == [t \in Workers |-> Reached(t)]
Total == SumFunctionOnSet(Reaches, Workers)

(* Nothing comes between a load and its store: there is a mutex, or there  *)
(* is one thread only.                                                     *)
Exclusive == PTHREAD_SYNC \/ THREAD_AMOUNT = 1

ThreadsInv ==
    /\ PTHREAD_SYNC \in BOOLEAN
    /\ mt_pc \in [Workers -> {"loop", "read", "write", "unlock", "barrier",
                              "exited"}]
    /\ num \in [Workers -> 0 .. INCREMENTS]
    /\ val \in [Workers -> Nat]
    /\ sharedVariable \in Nat
    /\ \A t \in Workers :
          /\ mt_pc[t] \in Inside => num[t] < INCREMENTS
          /\ mt_pc[t] \in {"barrier", "exited"} => num[t] = INCREMENTS
          /\ PTHREAD_SYNC /\ mt_pc[t] \in Inside => mutexSum = {t}
    /\ exit_status = "SUCCESS" => \A t \in Workers : mt_pc[t] = "exited"

(* From above, no value comes from nowhere; from below, the variable is    *)
(* never zero again, so the second addition of a thread leaves two or      *)
(* more, and the last store of all is a thread's last.                     *)
LostInv ==
    /\ ThreadsInv
    /\ sharedVariable <= Total
    /\ \A t \in Workers : mt_pc[t] = "write" => val[t] <= Total
    /\ Exclusive => /\ sharedVariable = Total
                    /\ \A t \in Workers :
                          mt_pc[t] = "write" => val[t] = sharedVariable
    /\ (\E t \in Workers : Reached(t) > 0) => sharedVariable > 0
    /\ \A t \in Workers : mt_pc[t] = "write" /\ num[t] > 0 => val[t] > 0
    /\ INCREMENTS > 1 /\ (\A t \in Workers : Reached(t) = INCREMENTS) =>
          sharedVariable > 1

(* No thread has reached more than its additions.                          *)
LEMMA ReachedType ==
    ASSUME ThreadsInv
    PROVE  /\ \A t \in Workers : Reached(t) \in 0 .. INCREMENTS
           /\ Total \in Int
           /\ IsFiniteSet(Workers) /\ Cardinality(Workers) = THREAD_AMOUNT
<1>1. \A t \in Workers : Reached(t) \in 0 .. INCREMENTS
  <2> SUFFICES ASSUME NEW t \in Workers PROVE Reached(t) \in 0 .. INCREMENTS
    OBVIOUS
  <2>1. num[t] \in 0 .. INCREMENTS /\ (mt_pc[t] = "unlock" => num[t] < INCREMENTS)
    BY DEF ThreadsInv, Inside
  <2> QED
    BY <2>1, IncrementsAssumption DEF Reached
<1>2. IsFiniteSet(Workers) /\ Cardinality(Workers) = THREAD_AMOUNT
  <2>1. THREAD_AMOUNT - 1 \in Int /\ ~(0 > THREAD_AMOUNT - 1)
        /\ THREAD_AMOUNT - 1 - 0 + 1 = THREAD_AMOUNT
    BY AmountAssumption
  <2> QED
    BY <2>1, FS_Interval DEF Workers
<1>3. \A t \in Workers : Reaches[t] \in Int
  BY <1>1, IncrementsAssumption DEF Reaches
<1>4. Total \in Int
  BY <1>2, <1>3, SumType DEF Total
<1> QED
  BY <1>1, <1>2, <1>4

(* Only one thread is inside its addition where that is exclusive.         *)
LEMMA OneInside ==
    ASSUME ThreadsInv, Exclusive, NEW t \in Workers, NEW u \in Workers,
           mt_pc[t] \in Inside, mt_pc[u] \in Inside
    PROVE  t = u
<1>1. CASE PTHREAD_SYNC
  <2>1. mutexSum = {t} /\ mutexSum = {u}
    BY <1>1 DEF ThreadsInv
  <2> QED
    BY <2>1
<1>2. CASE THREAD_AMOUNT = 1
  BY <1>2 DEF Workers
<1> QED
  BY <1>1, <1>2 DEF Exclusive

(* It holds at the start.                                                  *)
LEMMA ThreadsInit == MTInit => ThreadsInv
BY IncrementsAssumption DEF MTInit, ThreadsInv, Inside

(* Each step keeps it.                                                     *)
LEMMA ThreadsStep ==
    ASSUME ThreadsInv, [MTNext]_mtVars
    PROVE  ThreadsInv'
<1>1. CASE UNCHANGED mtVars
  BY <1>1 DEF mtVars, ThreadsInv
<1>2. CASE MTMain
  BY <1>2 DEF MTMain, CreateThread, CreateFails, JoinAll, ThreadsInv, Running
<1>3. ASSUME NEW t \in Workers, simpleThread(t) PROVE ThreadsInv'
  <2>1. exit_status' = "RUNNING" /\ PTHREAD_SYNC' = PTHREAD_SYNC
        /\ exit_status = "RUNNING" /\ PTHREAD_SYNC \in BOOLEAN
    BY <1>3
       DEF simpleThread, LockSum, ReadShared, WriteShared, UnlockSum,
           ArriveBarrier, SeeFinal, Goes, Running, ThreadsInv
  <2>2. CASE LockSum(t)
    <3>1. /\ mt_pc' = [mt_pc EXCEPT ![t] = "read"] /\ num[t] < INCREMENTS
          /\ UNCHANGED <<num, val, sharedVariable>>
          /\ PTHREAD_SYNC => mutexSum = {} /\ mutexSum' = {t}
      BY <2>2 DEF LockSum, Goes, Free
    <3>2. PTHREAD_SYNC => \A u \in Workers : mt_pc[u] \notin Inside
      BY <3>1 DEF ThreadsInv
    <3> QED
      BY <2>1, <3>1, <3>2 DEF ThreadsInv, Inside
  <2>3. CASE ReadShared(t)
    BY <2>1, <2>3 DEF ReadShared, Goes, ThreadsInv, Inside
  <2>4. CASE WriteShared(t)
    <3>1. val[t] + 1 \in Nat
      BY DEF ThreadsInv
    <3> QED
      BY <2>1, <2>4, <3>1 DEF WriteShared, Goes, ThreadsInv, Inside
  <2>5. CASE UnlockSum(t)
    <3>1. /\ mt_pc[t] = "unlock" /\ mt_pc' = [mt_pc EXCEPT ![t] = "loop"]
          /\ num' = [num EXCEPT ![t] = @ + 1]
          /\ UNCHANGED <<val, sharedVariable>>
      BY <2>5 DEF UnlockSum, Goes
    <3>2. num[t] < INCREMENTS /\ num[t] \in Nat
      BY <3>1, IncrementsAssumption DEF ThreadsInv, Inside
    <3>3. num[t] + 1 \in 0 .. INCREMENTS
      BY <3>2, IncrementsAssumption
    <3>4. PTHREAD_SYNC => mutexSum = {t}
      BY <3>1 DEF ThreadsInv, Inside
    <3>5. PTHREAD_SYNC => \A u \in Workers \ {t} : mt_pc[u] \notin Inside
      BY <3>4 DEF ThreadsInv
    <3> QED
      BY <2>1, <3>1, <3>3, <3>5 DEF ThreadsInv, Inside
         , UnlockSum
  <2>6. CASE ArriveBarrier(t)
    BY <2>1, <2>6 DEF ArriveBarrier, Goes, ThreadsInv, Inside
  <2>7. CASE SeeFinal(t)
    BY <2>1, <2>7 DEF SeeFinal, Goes, ThreadsInv, Inside
  <2> QED
    BY <1>3, <2>2, <2>3, <2>4, <2>5, <2>6, <2>7 DEF simpleThread
<1> QED
  BY <1>1, <1>2, <1>3 DEF MTNext

(* A step that is not a store brings nothing to the variable.              *)
LEMMA OthersBringNothing ==
    ASSUME ThreadsInv, NEW t \in Workers,
           LockSum(t) \/ ReadShared(t) \/ UnlockSum(t) \/ ArriveBarrier(t)
             \/ SeeFinal(t)
    PROVE  /\ \A u \in Workers : Reached(u)' = Reached(u)
           /\ Total' = Total /\ sharedVariable' = sharedVariable
           /\ Exclusive' = Exclusive
<1>1. \A u \in Workers : Reached(u)' = Reached(u)
  BY IncrementsAssumption
     DEF ThreadsInv, LockSum, ReadShared, UnlockSum, ArriveBarrier, SeeFinal,
         Goes, Reached
<1>2. Total' = Total
  <2>1. Reaches' = Reaches
    BY <1>1 DEF Reaches
  <2> QED
    BY <2>1 DEF Total
<1> QED
  BY <1>1, <1>2
     DEF LockSum, ReadShared, UnlockSum, ArriveBarrier, SeeFinal, Exclusive

(* A store brings one addition of its thread.                              *)
LEMMA StoreBringsOne ==
    ASSUME ThreadsInv, NEW t \in Workers, WriteShared(t)
    PROVE  /\ Reached(t)' = Reached(t) + 1 /\ Reached(t) = num[t]
           /\ num[t] \in Nat
           /\ \A u \in Workers \ {t} : Reached(u)' = Reached(u)
           /\ Total' = Total + 1
<1>1. /\ mt_pc[t] = "write" /\ mt_pc' = [mt_pc EXCEPT ![t] = "unlock"]
      /\ num' = num /\ num[t] \in Nat
  BY IncrementsAssumption DEF WriteShared, Goes, ThreadsInv
<1>2. /\ Reached(t)' = Reached(t) + 1 /\ Reached(t) = num[t]
      /\ \A u \in Workers \ {t} : Reached(u)' = Reached(u)
  BY <1>1 DEF ThreadsInv, Reached
<1> DEFINE f == Reaches
           g == Reaches'
<1>3. /\ \A u \in Workers : f[u] \in Int
      /\ g[t] = f[t] + 1
      /\ \A u \in Workers \ {t} : g[u] = f[u]
  BY <1>1, <1>2, ReachedType, IncrementsAssumption DEF Reaches
<1>4. IsFiniteSet(Workers) /\ Total \in Int
  BY ReachedType
<1>5. Total = SumFunctionOnSet(f, Workers) /\ Total' = SumFunctionOnSet(g, Workers)
  BY DEF Total
<1> HIDE DEF f, g
<1>6. Total' = Total + 1
  <2>1. g[t] \in Int /\ f[t] \in Int
    BY <1>3
  <2>2. SumFunctionOnSet(g, Workers) = SumFunctionOnSet(f, Workers) + g[t] - f[t]
    BY <1>3, <1>4, <2>1, SumChanges
  <2> QED
    BY <1>3, <1>4, <1>5, <2>1, <2>2
<1> QED
  BY <1>1, <1>2, <1>6

(* It holds at the start.                                                  *)
LEMMA LostInit == MTInit => LostInv
<1> SUFFICES ASSUME MTInit PROVE LostInv
  OBVIOUS
<1>1. ThreadsInv
  BY ThreadsInit
<1>2. /\ sharedVariable = 0
      /\ \A t \in Workers : Reached(t) = 0 /\ mt_pc[t] = "loop"
  BY DEF MTInit, Reached
<1>3. Total = 0
  BY <1>1, <1>2, ReachedType, SumOfZeros DEF Total, Reaches
<1>4. 0 \in Workers
  BY AmountAssumption DEF Workers
<1> QED
  BY <1>1, <1>2, <1>3, <1>4, IncrementsAssumption DEF LostInv

(* Each step keeps it.                                                     *)
LEMMA LostStep ==
    ASSUME LostInv, [MTNext]_mtVars
    PROVE  LostInv'
<1>1. ThreadsInv /\ ThreadsInv'
  BY ThreadsStep DEF LostInv
<1>2. CASE UNCHANGED mtVars \/ MTMain
  <2>1. /\ UNCHANGED <<sharedVariable, val, num, mt_pc, PTHREAD_SYNC>>
    BY <1>2 DEF mtVars, MTMain, CreateThread, CreateFails, JoinAll
  <2>2. /\ \A t \in Workers : Reached(t)' = Reached(t)
        /\ Total' = Total /\ Exclusive' = Exclusive
    BY <2>1 DEF Reached, Total, Reaches, Exclusive
  <2> QED
    BY <1>1, <2>1, <2>2 DEF LostInv
<1>3. ASSUME NEW t \in Workers,
             LockSum(t) \/ UnlockSum(t) \/ ArriveBarrier(t) \/ SeeFinal(t)
      PROVE  LostInv'
  <2>1. /\ \A u \in Workers : Reached(u)' = Reached(u)
        /\ Total' = Total /\ sharedVariable' = sharedVariable
        /\ Exclusive' = Exclusive
    BY <1>1, <1>3, OthersBringNothing
  <2>2. \A u \in Workers : mt_pc'[u] = "write" =>
          mt_pc[u] = "write" /\ val'[u] = val[u] /\ num'[u] = num[u]
    BY <1>1, <1>3
       DEF ThreadsInv, LockSum, UnlockSum, ArriveBarrier, SeeFinal, Goes
  <2> QED
    BY <1>1, <2>1, <2>2 DEF LostInv
<1>4. ASSUME NEW t \in Workers, ReadShared(t)
      PROVE  LostInv'
  <2>1. /\ \A u \in Workers : Reached(u)' = Reached(u)
        /\ Total' = Total /\ sharedVariable' = sharedVariable
        /\ Exclusive' = Exclusive
    BY <1>1, <1>4, OthersBringNothing
  <2>2. \A u \in Workers \ {t} : mt_pc'[u] = "write" =>
          mt_pc[u] = "write" /\ val'[u] = val[u] /\ num'[u] = num[u]
    BY <1>1, <1>4 DEF ThreadsInv, ReadShared, Goes
  <2>3. val'[t] = sharedVariable /\ num'[t] = num[t] /\ num[t] \in Nat
    BY <1>1, <1>4, IncrementsAssumption DEF ThreadsInv, ReadShared
  <2>4. num[t] > 0 => sharedVariable > 0
    <3>1. Reached(t) >= num[t]
      BY <2>3 DEF Reached
    <3>2. Reached(t) \in Int
      BY <1>1, ReachedType, IncrementsAssumption
    <3>3. num[t] > 0 => Reached(t) > 0
      BY <2>3, <3>1, <3>2
    <3> QED
      BY <3>3 DEF LostInv
  <2> QED
    BY <1>1, <2>1, <2>2, <2>3, <2>4 DEF LostInv
<1>5. ASSUME NEW t \in Workers, WriteShared(t)
      PROVE  LostInv'
  <2>1. /\ Reached(t)' = Reached(t) + 1 /\ Reached(t) = num[t] /\ num[t] \in Nat
        /\ \A u \in Workers \ {t} : Reached(u)' = Reached(u)
        /\ Total' = Total + 1 /\ Total \in Int
    BY <1>1, <1>5, StoreBringsOne, ReachedType
  <2>2. /\ mt_pc[t] = "write" /\ mt_pc' = [mt_pc EXCEPT ![t] = "unlock"]
        /\ sharedVariable' = val[t] + 1 /\ val' = val /\ num' = num
        /\ Exclusive' = Exclusive
    BY <1>5 DEF WriteShared, Goes, Exclusive
  <2>3. mt_pc'[t] = "unlock" /\ \A u \in Workers \ {t} : mt_pc'[u] = mt_pc[u]
    BY <1>1, <2>2 DEF ThreadsInv
  <2>4. \A u \in Workers : val[u] \in Nat /\ num[u] \in Nat
    BY <1>1, IncrementsAssumption DEF ThreadsInv
  <2>5. sharedVariable' <= Total'
    BY <2>1, <2>2, <2>4 DEF LostInv
  <2>6. \A u \in Workers : mt_pc'[u] = "write" => val'[u] <= Total'
    BY <2>1, <2>2, <2>3, <2>4 DEF LostInv
  <2>7. Exclusive => /\ sharedVariable' = Total'
                     /\ \A u \in Workers : mt_pc'[u] # "write"
    <3> SUFFICES ASSUME Exclusive
                 PROVE  /\ sharedVariable' = Total'
                        /\ \A u \in Workers : mt_pc'[u] # "write"
      OBVIOUS
    <3>1. sharedVariable' = Total'
      BY <2>1, <2>2 DEF LostInv
    <3>2. \A u \in Workers \ {t} : mt_pc[u] # "write"
      BY <1>1, <2>2, OneInside DEF Inside
    <3> QED
      BY <2>3, <3>1, <3>2
  <2>8. sharedVariable' > 0
    BY <2>2, <2>4
  <2>9. \A u \in Workers : mt_pc'[u] = "write" /\ num'[u] > 0 => val'[u] > 0
    BY <2>2, <2>3 DEF LostInv
  <2>10. INCREMENTS > 1 /\ (\A u \in Workers : Reached(u)' = INCREMENTS) =>
           sharedVariable' > 1
    <3> SUFFICES ASSUME INCREMENTS > 1, Reached(t)' = INCREMENTS
                 PROVE  sharedVariable' > 1
      OBVIOUS
    <3>1. num[t] > 0
      BY <2>1, IncrementsAssumption
    <3>2. val[t] > 0
      BY <2>2, <3>1 DEF LostInv
    <3> QED
      BY <2>2, <2>4, <3>2
  <2> QED
    BY <1>1, <2>2, <2>5, <2>6, <2>7, <2>8, <2>9, <2>10 DEF LostInv
<1> QED
  BY <1>2, <1>3, <1>4, <1>5 DEF MTNext, simpleThread

(* What the demo shows, for every number of threads and additions: with    *)
(* synchronization no addition is lost, and without it some of two are     *)
(* always left, whatever the interleaving of loads and stores.             *)
THEOREM LostUpdatesBoundedHolds == MTSpec => []LostUpdatesBounded
<1>1. LostInv => LostUpdatesBounded
  <2> SUFFICES ASSUME LostInv, exit_status = "SUCCESS"
               PROVE  LET all == THREAD_AMOUNT * INCREMENTS
                          least == IF THREAD_AMOUNT = 1 THEN INCREMENTS
                                   ELSE IF INCREMENTS = 1 THEN 1 ELSE 2
                      IN  sharedVariable \in (IF PTHREAD_SYNC THEN all ELSE least) .. all
    BY DEF LostUpdatesBounded
  <2> DEFINE all == THREAD_AMOUNT * INCREMENTS
  <2>1. ThreadsInv
    BY DEF LostInv
  <2>2. \A t \in Workers : Reached(t) = INCREMENTS
    BY <2>1, IncrementsAssumption DEF ThreadsInv, Reached
  <2>3. Total = INCREMENTS * Cardinality(Workers)
    <3>1. \A t \in Workers : Reaches[t] = INCREMENTS
      BY <2>2 DEF Reaches
    <3>2. IsFiniteSet(Workers) /\ INCREMENTS \in Int
      BY <2>1, ReachedType, IncrementsAssumption
    <3> QED
      BY <3>1, <3>2, SumOfConstant DEF Total
  <2>4. Total = all /\ all \in Nat
    BY <2>1, <2>3, ReachedType, AmountAssumption, IncrementsAssumption, SMT
  <2>5. sharedVariable <= all /\ sharedVariable \in Nat
    BY <2>1, <2>4 DEF LostInv, ThreadsInv
  <2>6. PTHREAD_SYNC => sharedVariable = all
    BY <2>4 DEF LostInv, Exclusive
  <2>7. THREAD_AMOUNT = 1 => sharedVariable = INCREMENTS
    <3> SUFFICES ASSUME THREAD_AMOUNT = 1 PROVE sharedVariable = INCREMENTS
      OBVIOUS
    <3>1. all = INCREMENTS
      BY IncrementsAssumption
    <3> QED
      BY <2>4, <3>1 DEF LostInv, Exclusive
  <2>8. sharedVariable > 0
    <3>1. 0 \in Workers
      BY AmountAssumption DEF Workers
    <3>2. Reached(0) > 0
      BY <2>2, <3>1, IncrementsAssumption
    <3> QED
      BY <3>1, <3>2 DEF LostInv
  <2>9. INCREMENTS # 1 => sharedVariable > 1
    BY <2>2, IncrementsAssumption DEF LostInv
  <2> HIDE DEF all
  <2>10. sharedVariable \in
          (IF PTHREAD_SYNC THEN all
           ELSE IF THREAD_AMOUNT = 1 THEN INCREMENTS
           ELSE IF INCREMENTS = 1 THEN 1 ELSE 2) .. all
    BY <2>4, <2>5, <2>6, <2>7, <2>8, <2>9, IncrementsAssumption
  <2> QED
    BY <2>10 DEF all
<1> QED
  BY <1>1, LostInit, LostStep, PTL DEF MTSpec

-----------------------------------------------------------------------------
(* SumParallel                                                             *)

(* The slices lie within the array.                                        *)
LEMMA SliceFits ==
    /\ Slice \in Nat
    /\ \A t \in SumThreads, i \in Nat :
          i < Slice => Element(t, i) \in Nat /\ Element(t, i) < ELEMENT_COUNT
<1>1. Slice \in Nat /\ Slice * THREAD_COUNT <= ELEMENT_COUNT
  <2>1. THREAD_COUNT \in Nat \ {0} /\ ELEMENT_COUNT \in Nat
    BY SummersAssumption, ElementsAssumption
  <2> QED
    BY <2>1, SMT DEF Slice
<1>2. ASSUME NEW t \in SumThreads, NEW i \in Nat, i < Slice
      PROVE  Element(t, i) \in Nat /\ Element(t, i) < ELEMENT_COUNT
  <2>1. t \in Nat /\ t + 1 <= THREAD_COUNT
    BY <1>2, SummersAssumption DEF SumThreads
  <2> DEFINE s == Slice
             left == THREAD_COUNT - (t + 1)
  <2>2. s \in Nat /\ left \in Nat /\ THREAD_COUNT = t + 1 + left
    BY <1>1, <2>1, SummersAssumption
  <2>3. s * THREAD_COUNT <= ELEMENT_COUNT
    BY <1>1
  <2>4. Element(t, i) = t * s + i
    BY DEF Element
  <2> HIDE DEF s, left
  <2>5. s * (t + 1 + left) = t * s + s + s * left /\ s * left \in Nat
        /\ t * s \in Nat
    BY <2>1, <2>2, SMT
  <2>6. i < s
    BY <1>2 DEF s
  <2> QED
    BY <2>2, <2>3, <2>4, <2>5, <2>6, ElementsAssumption, SMT
<1> QED
  BY <1>1, <1>2

(* A thread that is past its lock is the only one that holds the mutex,    *)
(* and what it has loaded is still the sum.                                *)
MutexInv ==
    \A t \in SumThreads :
        /\ t \in mutex => sum_pc[t] # "lock"
        /\ sum_pc[t] # "lock" => mutex = {t} /\ added[t] < Slice
        /\ sum_pc[t] = "store" => loaded[t] = sum

SumInv == SumTypeOK /\ MutexInv

(* It holds at the start.                                                  *)
LEMMA SumInitial == SumInit => SumInv
<1>1. 0 \in 0 .. Slice /\ 0 \in 0 .. THREAD_COUNT
  BY SliceFits, SummersAssumption
<1>2. SumInit => joined \in BOOLEAN
  BY DEF SumInit
<1>3. ASSUME SumInit
      PROVE  /\ sum \in Nat
             /\ started \in 0 .. THREAD_COUNT
             /\ sum_pc = [t \in SumThreads |-> "lock"]
             /\ added \in [SumThreads -> 0 .. Slice]
             /\ loaded \in [SumThreads -> Nat]
             /\ mutex = {}
  BY <1>1, <1>3, ElementsAssumption DEF SumInit
<1> QED
  BY <1>2, <1>3 DEF SumInv, SumTypeOK, MutexInv

(* Locking and unlocking keep it,                                          *)
LEMMA SumLocks ==
    ASSUME SumInv, NEW t \in SumThreads, Lock(t) \/ Unlock(t)
    PROVE  SumInv'
<1>1. CASE Lock(t)
  <2>1. /\ sum_pc[t] = "lock" /\ sum_pc' = [sum_pc EXCEPT ![t] = "load"]
        /\ mutex = {} /\ mutex' = {t} /\ added[t] < Slice
        /\ UNCHANGED <<sum, started, joined, added, loaded>>
    BY <1>1 DEF Lock, Free
  <2>2. \A u \in SumThreads : sum_pc[u] = "lock"
    BY <2>1 DEF SumInv, MutexInv
  <2>3. MutexInv'
    BY <2>1, <2>2 DEF SumInv, MutexInv, SumTypeOK
  <2>4. Element(t, added[t]) < ELEMENT_COUNT
    BY <2>1, SliceFits DEF SumInv, SumTypeOK
  <2>5. SumTypeOK'
    BY <2>1, <2>2, <2>4 DEF SumInv, SumTypeOK
  <2> QED
    BY <2>3, <2>5 DEF SumInv
<1>2. CASE Unlock(t)
  <2>1. /\ sum_pc[t] = "unlock" /\ sum_pc' = [sum_pc EXCEPT ![t] = "lock"]
        /\ mutex' = {} /\ added' = [added EXCEPT ![t] = @ + 1]
        /\ UNCHANGED <<sum, started, joined, loaded>>
    BY <1>2 DEF Unlock
  <2>2. mutex = {t} /\ added[t] < Slice
    BY <2>1 DEF SumInv, MutexInv
  <2>3. \A u \in SumThreads : u # t => sum_pc[u] = "lock"
    BY <2>2 DEF SumInv, MutexInv
  <2>4. \A u \in SumThreads : sum_pc'[u] = "lock"
    BY <2>1, <2>3 DEF SumInv, SumTypeOK
  <2>5. added' \in [SumThreads -> 0 .. Slice]
    BY <2>1, <2>2, SliceFits DEF SumInv, SumTypeOK
  <2>6. SumTypeOK'
    BY <2>1, <2>4, <2>5 DEF SumInv, SumTypeOK
  <2>7. MutexInv'
    BY <2>1, <2>4 DEF MutexInv
  <2> QED
    BY <2>6, <2>7 DEF SumInv
<1> QED
  BY <1>1, <1>2

(* and so do the load and the store between them.                          *)
LEMMA SumAdds ==
    ASSUME SumInv, NEW t \in SumThreads, LoadSum(t) \/ StoreSum(t)
    PROVE  SumInv'
<1>1. /\ sum_pc[t] \in {"load", "store"} /\ mutex = {t} /\ added[t] < Slice
      /\ \A u \in SumThreads : u # t => sum_pc[u] = "lock"
  BY DEF LoadSum, StoreSum, SumInv, MutexInv
<1>2. added[t] \in Nat
  BY SliceFits DEF SumInv, SumTypeOK
<1>3. Element(t, added[t]) \in Nat
  BY <1>1, <1>2, SliceFits
<1>4. CASE LoadSum(t)
  BY <1>1, <1>4 DEF LoadSum, SumInv, SumTypeOK, MutexInv
<1>5. CASE StoreSum(t)
  BY <1>1, <1>3, <1>5 DEF StoreSum, SumInv, SumTypeOK, MutexInv
<1> QED
  BY <1>4, <1>5

(* Every step keeps the invariant.                                         *)
LEMMA SumStep == SumInv /\ [SumNext]_sumVars => SumInv'
<1> SUFFICES ASSUME SumInv, [SumNext]_sumVars PROVE SumInv'
  OBVIOUS
<1>1. CASE main_func
  <2>1. /\ started' \in 0 .. THREAD_COUNT
        /\ UNCHANGED <<sum, sum_pc, added, loaded, mutex>>
    BY <1>1, SummersAssumption
    DEF main_func, StartThread, JoinSum, SumInv, SumTypeOK
  <2>2. joined' \in BOOLEAN
    BY <1>1 DEF main_func, StartThread, JoinSum, SumInv, SumTypeOK
  <2> QED
    BY <2>1, <2>2 DEF SumInv, SumTypeOK, MutexInv
<1>2. ASSUME NEW t \in SumThreads, AddSlice(t) PROVE SumInv'
  BY <1>2, SumLocks, SumAdds DEF AddSlice
<1>3. CASE UNCHANGED sumVars
  BY <1>3 DEF sumVars, SumInv, SumTypeOK, MutexInv
<1> QED
  BY <1>1, <1>2, <1>3 DEF SumNext

(* Every thread adds elements of the array, for any number of threads and  *)
(* elements.                                                               *)
THEOREM SumTypeCorrect == SumSpec => []SumTypeOK
<1>1. SumInv => SumTypeOK
  BY DEF SumInv
<1> QED
  BY <1>1, SumInitial, SumStep, PTL DEF SumSpec

(* No addition is lost: a store adds its element to the sum there is.      *)
THEOREM NoLostUpdateHolds == SumSpec => NoLostUpdate
<1>1. SumInv /\ [SumNext]_sumVars =>
          [\A t \in SumThreads :
              StoreSum(t) => sum' = sum + Element(t, added[t])]_sumVars
  BY DEF SumInv, MutexInv, StoreSum
<1> QED
  BY <1>1, SumInitial, SumStep, PTL DEF SumSpec, NoLostUpdate

(* The slices do not overlap: an element has one thread and one turn.      *)
LEMMA ElementsDiffer ==
    ASSUME NEW t \in SumThreads, NEW u \in SumThreads,
           NEW i \in 0 .. Slice - 1, NEW j \in 0 .. Slice - 1,
           Element(t, i) = Element(u, j)
    PROVE  t = u /\ i = j
<1> DEFINE s == Slice
<1>1. s \in Nat \ {0} /\ t \in Nat /\ u \in Nat
  BY SliceFits, SummersAssumption DEF SumThreads
<1>2. Element(t, i) = s * t + i /\ Element(u, j) = s * u + j
  BY <1>1 DEF Element
<1>3. i \in 0 .. s - 1 /\ j \in 0 .. s - 1
  OBVIOUS
<1> HIDE DEF s
<1>4. (s * t + i) \div s = t /\ (s * t + i) % s = i
  BY <1>1, <1>3, DivisionUnique
<1>5. (s * u + j) \div s = u /\ (s * u + j) % s = j
  BY <1>1, <1>3, DivisionUnique
<1> QED
  BY <1>2, <1>4, <1>5

(* The elements that have reached the sum.                                 *)
AddedBy(t) == {Element(t, i) : i \in 0 .. Stored(t) - 1}
Added == UNION {AddedBy(t) : t \in SumThreads}

(* The elements that have been added are finitely many numbers.            *)
LEMMA AddedElements ==
    ASSUME SumInv
    PROVE  /\ \A t \in SumThreads : Stored(t) \in 0 .. Slice
           /\ \A e \in Added : e \in Nat
           /\ IsFiniteSet(Added)
<1>1. \A t \in SumThreads : Stored(t) \in 0 .. Slice
  <2> SUFFICES ASSUME NEW t \in SumThreads PROVE Stored(t) \in 0 .. Slice
    OBVIOUS
  <2>1. added[t] \in 0 .. Slice /\ (sum_pc[t] = "unlock" => added[t] < Slice)
    BY DEF SumInv, SumTypeOK, MutexInv
  <2> QED
    BY <2>1, SliceFits DEF Stored
<1>2. \A e \in Added : e \in Nat /\ e <= ELEMENT_COUNT
  <2> SUFFICES ASSUME NEW t \in SumThreads, NEW i \in 0 .. Stored(t) - 1
               PROVE  Element(t, i) \in Nat /\ Element(t, i) <= ELEMENT_COUNT
    BY DEF Added, AddedBy
  <2>1. i \in Nat /\ i < Slice
    BY <1>1, SliceFits
  <2> QED
    BY <2>1, SliceFits, ElementsAssumption
<1>3. Added \in SUBSET Nat
  BY <1>2
<1> QED
  BY <1>1, <1>2, <1>3, ElementsAssumption, FS_BoundedSetOfNaturals

(* A store brings one element to the sum, and one that was not there.      *)
LEMMA StoreAddsOne ==
    ASSUME SumInv, NEW t \in SumThreads, StoreSum(t)
    PROVE  /\ Element(t, added[t]) \in Nat
           /\ Element(t, added[t]) \notin Added
           /\ Added' = Added \union {Element(t, added[t])}
<1> DEFINE e == Element(t, added[t])
<1>1. /\ sum_pc[t] = "store" /\ sum_pc' = [sum_pc EXCEPT ![t] = "unlock"]
      /\ added' = added
  BY DEF StoreSum
<1>2. /\ sum_pc \in [SumThreads -> {"lock", "load", "store", "unlock"}]
      /\ added \in [SumThreads -> 0 .. Slice] /\ added[t] < Slice
  BY <1>1 DEF SumInv, SumTypeOK, MutexInv
<1>3. added[t] \in 0 .. Slice - 1 /\ added[t] \in Nat
  BY <1>2, SliceFits
<1>4. e \in Nat
  BY <1>2, <1>3, SliceFits
<1>5. Stored(t) = added[t] /\ Stored(t)' = added[t] + 1
      /\ \A u \in SumThreads \ {t} : Stored(u)' = Stored(u)
  BY <1>1, <1>2, <1>3 DEF Stored
<1>6. e \notin Added
  <2> SUFFICES ASSUME NEW u \in SumThreads, NEW j \in 0 .. Stored(u) - 1,
                      e = Element(u, j)
               PROVE  FALSE
    BY DEF Added, AddedBy
  <2>1. j \in 0 .. Slice - 1
    BY AddedElements, SliceFits
  <2>2. u = t /\ j = added[t]
    BY <1>3, <2>1, ElementsDiffer
  <2> QED
    BY <1>3, <1>5, <2>2
<1>7. AddedBy(t)' = AddedBy(t) \union {e}
  <2>1. 0 .. added[t] = (0 .. added[t] - 1) \union {added[t]}
    BY <1>3
  <2>2. AddedBy(t)' = {Element(t, i) : i \in 0 .. added[t]}
    <3>1. Stored(t)' - 1 = added[t]
      BY <1>3, <1>5
    <3> QED
      BY <3>1 DEF AddedBy, Element
  <2> QED
    BY <1>5, <2>1, <2>2 DEF AddedBy
<1>8. \A u \in SumThreads \ {t} : AddedBy(u)' = AddedBy(u)
  BY <1>5 DEF AddedBy, Element
<1>9. Added' = Added \union {e}
  BY <1>7, <1>8 DEF Added
<1> QED
  BY <1>4, <1>6, <1>9

(* What the sum is, and that a joined thread is done with its slice.       *)
AccountInv ==
    /\ sum = ELEMENT_COUNT + SumFunction([e \in Added |-> e])
    /\ joined => \A t \in SumThreads : sum_pc[t] = "lock" /\ added[t] = Slice

(* Each step keeps the account.                                            *)
LEMMA AccountStep ==
    ASSUME SumInv, AccountInv, [SumNext]_sumVars
    PROVE  AccountInv'
<1>1. ASSUME UNCHANGED <<sum, Added>>,
             joined' => \A t \in SumThreads : sum_pc'[t] = "lock" /\ added'[t] = Slice
      PROVE  AccountInv'
  BY <1>1 DEF AccountInv
<1>2. CASE main_func
  <2>1. UNCHANGED <<sum, sum_pc, added>>
    BY <1>2 DEF main_func, StartThread, JoinSum
  <2>2. UNCHANGED Added
    BY <2>1 DEF Added, AddedBy, Stored, Element
  <2>3. joined' => \A t \in SumThreads : sum_pc'[t] = "lock" /\ added'[t] = Slice
    BY <1>2, <2>1 DEF main_func, StartThread, JoinSum, AccountInv
  <2> QED
    BY <1>1, <2>1, <2>2, <2>3
<1>3. ASSUME NEW t \in SumThreads, Lock(t) \/ LoadSum(t) \/ Unlock(t)
      PROVE  AccountInv'
  <2>1. /\ sum_pc \in [SumThreads -> {"lock", "load", "store", "unlock"}]
        /\ added \in [SumThreads -> 0 .. Slice] /\ Slice \in Nat
    BY SliceFits DEF SumInv, SumTypeOK
  <2>2. \A u \in SumThreads : Stored(u)' = Stored(u)
    BY <1>3, <2>1 DEF Lock, LoadSum, Unlock, Stored
  <2>3. UNCHANGED <<sum, joined, Added>>
    BY <1>3, <2>2 DEF Added, AddedBy, Element, Lock, LoadSum, Unlock
  <2>4. ~joined
    BY <1>3, <2>1 DEF Lock, LoadSum, Unlock, AccountInv
  <2> QED
    BY <1>1, <2>3, <2>4
<1>4. ASSUME NEW t \in SumThreads, StoreSum(t)
      PROVE  AccountInv'
  <2> DEFINE e == Element(t, added[t])
             f == [x \in Added |-> x]
             g == [x \in Added' |-> x]
  <2>1. e \in Nat /\ e \notin Added /\ Added' = Added \union {e}
    BY <1>4, StoreAddsOne
  <2>2. sum' = sum + e /\ ~joined' /\ sum \in Nat
    BY <1>4 DEF StoreSum, SumInv, SumTypeOK, MutexInv, AccountInv
  <2>3. IsFiniteSet(Added) /\ \A x \in Added : x \in Nat
    BY AddedElements
  <2>4. IsFiniteSet(Added')
    BY <2>1, <2>3, FS_AddElement
  <2>5. /\ \A x \in Added : f[x] \in Int /\ g[x] = f[x]
        /\ \A x \in Added' : g[x] \in Int
        /\ g[e] = e /\ e \in Added' /\ Added' \ {e} = Added
    BY <2>1, <2>3
  <2>6. sum = ELEMENT_COUNT + SumFunctionOnSet(f, Added)
    BY DEF AccountInv, SumFunction
  <2> HIDE DEF f, g, e
  <2>7. SumFunctionOnSet(g, Added') = g[e] + SumFunctionOnSet(g, Added' \ {e})
    BY <2>4, <2>5, SumWithout
  <2>8. SumFunctionOnSet(g, Added) = SumFunctionOnSet(f, Added)
    BY <2>3, <2>5, SumAgrees
  <2>9. SumFunctionOnSet(f, Added) \in Int
    BY <2>3, <2>5, SumType
  <2>10. sum' = ELEMENT_COUNT + SumFunctionOnSet(g, Added')
    BY <2>1, <2>2, <2>5, <2>6, <2>7, <2>8, <2>9, ElementsAssumption
  <2>11. sum' = ELEMENT_COUNT + SumFunction(g)
    BY <2>10 DEF SumFunction, g
  <2> QED
    BY <2>2, <2>11 DEF AccountInv, g
<1>5. CASE UNCHANGED sumVars
  <2>1. UNCHANGED <<sum, joined, sum_pc, added, Added>>
    BY <1>5 DEF sumVars, Added, AddedBy, Stored, Element
  <2> QED
    BY <1>1, <2>1 DEF AccountInv
<1> QED
  BY <1>2, <1>3, <1>4, <1>5 DEF SumNext, AddSlice

(* When every thread is done, the elements added are those of all slices.  *)
LEMMA AllAdded ==
    ASSUME \A t \in SumThreads : Stored(t) = Slice
    PROVE  Added = 0 .. Slice * THREAD_COUNT - 1
<1>1. Slice \in Nat /\ THREAD_COUNT \in Nat \ {0}
  BY SliceFits, SummersAssumption
<1>2. ASSUME NEW t \in SumThreads, NEW i \in 0 .. Slice - 1
      PROVE  Element(t, i) \in 0 .. Slice * THREAD_COUNT - 1
  <2> DEFINE left == THREAD_COUNT - (t + 1)
             s == Slice
  <2>1. t \in Nat /\ left \in Nat /\ THREAD_COUNT = t + 1 + left /\ s \in Nat
        /\ i \in 0 .. s - 1
    BY <1>1 DEF SumThreads
  <2>2. Element(t, i) = t * s + i
    BY DEF Element
  <2> HIDE DEF left, s
  <2>3. s * (t + 1 + left) = t * s + s + s * left /\ s * left \in Nat
        /\ t * s \in Nat
    BY <2>1, SMT
  <2>4. t * s + i \in 0 .. s * THREAD_COUNT - 1
    BY <2>1, <2>3
  <2> QED
    BY <2>2, <2>4 DEF s
<1>3. ASSUME NEW e \in 0 .. Slice * THREAD_COUNT - 1
      PROVE  \E t \in SumThreads, i \in 0 .. Slice - 1 : e = Element(t, i)
  <2> DEFINE s == Slice
             t == e \div s
             i == e % s
  <2>1. s # 0 /\ e \in Nat
    BY <1>1
  <2>2. s \in Nat \ {0}
    BY <1>1, <2>1
  <2>3. e < s * THREAD_COUNT
    BY <1>1
  <2> HIDE DEF s
  <2>4. t \in Nat /\ i \in 0 .. s - 1 /\ e = s * t + i
    BY <2>1, <2>2
  <2> HIDE DEF t, i
  <2>5. t < THREAD_COUNT
    <3> SUFFICES ASSUME THREAD_COUNT <= t PROVE FALSE
      BY <1>1, <2>4
    <3>1. s * THREAD_COUNT <= s * t
      BY <1>1, <2>2, <2>4, SMT
    <3>2. s * t \in Nat /\ s * THREAD_COUNT \in Nat
      BY <1>1, <2>2, <2>4, SMT
    <3> QED
      BY <2>3, <2>4, <3>1, <3>2
  <2>6. t \in SumThreads
    BY <1>1, <2>4, <2>5 DEF SumThreads
  <2>7. e = Element(t, i)
    BY <2>2, <2>4 DEF Element, s
  <2> QED
    BY <2>4, <2>6, <2>7 DEF s
<1> QED
  BY <1>2, <1>3 DEF Added, AddedBy

(* The elements of all slices are those of the array but for what the      *)
(* division leaves over.                                                   *)
LEMMA SlicesLeaveRemainder ==
    Slice * THREAD_COUNT = ELEMENT_COUNT - (ELEMENT_COUNT % THREAD_COUNT)
<1> DEFINE q == ELEMENT_COUNT \div THREAD_COUNT
           r == ELEMENT_COUNT % THREAD_COUNT
<1>1. /\ q \in Nat /\ r \in Nat
      /\ ELEMENT_COUNT = THREAD_COUNT * q + r
  BY SummersAssumption, ElementsAssumption
<1> HIDE DEF q, r
<1>2. q * THREAD_COUNT = THREAD_COUNT * q
  BY <1>1, SummersAssumption
<1>3. THREAD_COUNT * q \in Nat
  BY <1>1, SummersAssumption
<1>4. q * THREAD_COUNT = ELEMENT_COUNT - r
  BY <1>1, <1>2, <1>3, ElementsAssumption
<1> QED
  BY <1>4 DEF Slice, q, r

(* The sum is ELEMENT_COUNT and the elements stored so far, each once, and *)
(* only what the division leaves over is missing when it is printed, for   *)
(* every number of threads and elements and every order in which they take *)
(* the mutex.                                                              *)
THEOREM SumAccountsHolds == SumSpec => []SumAccounts
<1>1. SumInit => AccountInv
  <2> SUFFICES ASSUME SumInit PROVE AccountInv
    OBVIOUS
  <2>1. sum = ELEMENT_COUNT /\ ~joined /\ \A t \in SumThreads : Stored(t) = 0
    BY DEF SumInit, Stored
  <2>2. Added = {}
    BY <2>1 DEF Added, AddedBy
  <2>3. SumFunction([e \in Added |-> e]) = 0
    <3> DEFINE f == [e \in Added |-> e]
    <3>1. SumFunctionOnSet(f, {}) = 0
      BY SumEmpty
    <3> QED
      BY <2>2, <3>1 DEF SumFunction
  <2> QED
    BY <2>1, <2>3, ElementsAssumption DEF AccountInv
<1>2. SumInv /\ AccountInv => SumAccounts
  <2> SUFFICES ASSUME SumInv, AccountInv PROVE SumAccounts
    OBVIOUS
  <2>1. joined =>
          Added = 0 .. ELEMENT_COUNT - (ELEMENT_COUNT % THREAD_COUNT) - 1
    <3> SUFFICES ASSUME joined PROVE Added = 0 .. Slice * THREAD_COUNT - 1
      BY SlicesLeaveRemainder
    <3>1. \A t \in SumThreads : Stored(t) = Slice
      BY SliceFits DEF AccountInv, Stored
    <3> QED
      BY <3>1, AllAdded
  <2> QED
    BY <2>1 DEF AccountInv, SumAccounts, Added, AddedBy
<1>3. SumInv /\ AccountInv /\ [SumNext]_sumVars => AccountInv'
  BY AccountStep
<1> QED
  BY <1>1, <1>2, <1>3, SumInitial, SumStep, PTL DEF SumSpec

-----------------------------------------------------------------------------
(* MatrixMultiply                                                          *)

Step == n \div NUM_CORES

(* What the division leaves of the rows.                                   *)
LEMMA StepFits == Step \in Nat /\ Step * NUM_CORES <= n
<1>1. NUM_CORES \in Nat \ {0} /\ n \in Nat
  BY ThreadsAssumption, OrderAssumption
<1> QED
  BY <1>1, SMT DEF Step

(* The first rows of the threads are in order, a step apart.               *)
LEMMA SlicesApart ==
    ASSUME NEW t \in Nat, NEW u \in Nat, t < u
    PROVE  t * Step \in Nat /\ (t + 1) * Step <= u * Step
<1> DEFINE s == Step
           k == u - (t + 1)
<1>1. s \in Nat /\ k \in Nat /\ u = t + 1 + k
  BY StepFits
<1> HIDE DEF s, k
<1>2. (t + 1 + k) * s = (t + 1) * s + k * s /\ k * s \in Nat
      /\ t * s \in Nat /\ (t + 1) * s \in Nat
  BY <1>1, SMT
<1>3. t * s \in Nat /\ (t + 1) * s <= u * s
  BY <1>1, <1>2
<1> QED
  BY <1>3 DEF s

(* Each thread's rows are rows of the matrices.                            *)
LEMMA SliceInMatrix ==
    ASSUME NEW t \in MatrixThreads
    PROVE  /\ lowerbound(t) \in Nat /\ upperbound(t) \in Nat
           /\ lowerbound(t) <= upperbound(t)
           /\ upperbound(t) <= n
<1>1. t \in Nat /\ t < NUM_CORES /\ NUM_CORES \in Nat /\ n \in Nat
      /\ NUM_CORES * Step = Step * NUM_CORES
  BY ThreadsAssumption, OrderAssumption, StepFits DEF MatrixThreads
<1>2. /\ t * Step \in Nat /\ (t + 1) * Step <= NUM_CORES * Step
      /\ t * Step <= (t + 1) * Step /\ (t + 1) * Step \in Nat
  <2>1. (t + 1) * Step = t * Step + Step
    BY <1>1, StepFits, SMT
  <2>2. t * Step \in Nat /\ (t + 1) * Step <= NUM_CORES * Step
    BY <1>1, SlicesApart
  <2> QED
    BY <2>1, <2>2, StepFits
<1>3. Step * NUM_CORES <= n
  BY StepFits
<1>4. lowerbound(t) = t * Step
  BY DEF lowerbound, Step
<1>5. upperbound(t) \in {n, (t + 1) * Step}
  BY DEF upperbound, Step
<1> HIDE DEF Step
<1> DEFINE lo == t * Step
           hi == (t + 1) * Step
           all == NUM_CORES * Step
<1>6. lo \in Nat /\ hi \in Nat /\ lo <= hi /\ hi <= all /\ all <= n
      /\ lowerbound(t) = lo /\ upperbound(t) \in {n, hi}
  BY <1>1, <1>2, <1>3, <1>4, <1>5
<1> HIDE DEF lo, hi, all
<1>7. all \in Nat
  BY <1>1, StepFits, SMT DEF all
<1> QED
  BY <1>1, <1>6, <1>7

(* No row is in the slices of two threads.                                 *)
LEMMA SlicesDisjoint ==
    ASSUME NEW t \in MatrixThreads, NEW u \in MatrixThreads, t # u,
           NEW i \in lowerbound(t) .. upperbound(t) - 1
    PROVE  i \notin lowerbound(u) .. upperbound(u) - 1
<1>1. ASSUME NEW v \in MatrixThreads, NEW w \in MatrixThreads, v < w
      PROVE  upperbound(v) <= lowerbound(w)
  <2>1. v \in Nat /\ w \in Nat /\ v # NUM_CORES - 1
    BY <1>1, ThreadsAssumption DEF MatrixThreads
  <2>2. upperbound(v) = (v + 1) * Step /\ lowerbound(w) = w * Step
    BY <2>1 DEF upperbound, lowerbound, Step
  <2> QED
    BY <1>1, <2>1, <2>2, SlicesApart
<1>2. t < u \/ u < t
  BY ThreadsAssumption DEF MatrixThreads
<1>3. /\ lowerbound(t) \in Nat /\ upperbound(t) \in Nat
      /\ lowerbound(u) \in Nat /\ upperbound(u) \in Nat
  BY SliceInMatrix
<1>4. upperbound(t) <= lowerbound(u) \/ upperbound(u) <= lowerbound(t)
  BY <1>1, <1>2
<1> QED
  BY <1>3, <1>4

(* How often a thread has arrived at the barrier.                          *)
ArrivedTimes(t) ==
    2 * count[t] +
        (IF pc[t] \in {"first barrier", "multiply"} THEN 1
         ELSE IF pc[t] \in {"second barrier", "update"} THEN 2 ELSE 0)

(* All threads have arrived equally often, but those that are blocked in   *)
(* the barrier once more.                                                  *)
InRound(r) ==
    \A t \in MatrixThreads :
        ArrivedTimes(t) = IF t \in barrier THEN r + 1 ELSE r

BarrierInv ==
    /\ \A t \in MatrixThreads :
          /\ t \in barrier => pc[t] \in {"first barrier", "second barrier"}
          /\ pc[t] # "done" => count[t] < ITERATIONS
    /\ \E r \in Nat : InRound(r)

MatrixInv == MatrixTypeOK /\ BarrierInv

(* It holds at the start.                                                  *)
LEMMA MatrixInitial == MatrixInit => MatrixInv
<1> SUFFICES ASSUME MatrixInit PROVE MatrixInv
  OBVIOUS
<1>1. 0 \in Rows /\ 0 \in 0 .. ITERATIONS /\ 0 < ITERATIONS
      /\ 0 \in 0 .. NUM_CORES
  BY ThreadsAssumption, OrderAssumption, IterationsAssumption DEF Rows
<1>2. \A t \in MatrixThreads :
          /\ lowerbound(t) \in lowerbound(t) .. upperbound(t)
          /\ lowerbound(t) \in 0 .. n
  BY SliceInMatrix, OrderAssumption
<1>3. at \in [MatrixThreads -> (0 .. n) \X Rows \X Rows]
  BY <1>1, <1>2 DEF MatrixInit
<1>4. \A t \in MatrixThreads : at[t][1] \in lowerbound(t) .. upperbound(t)
  BY <1>2 DEF MatrixInit
<1>5. printed \in BOOLEAN
  BY DEF MatrixInit
<1>6. InRound(0)
  BY DEF MatrixInit, InRound, ArrivedTimes
<1>7. BarrierInv
  BY <1>1, <1>6 DEF MatrixInit, BarrierInv
<1>8. /\ spawned \in 0 .. NUM_CORES /\ barrier \subseteq MatrixThreads
      /\ count \in [MatrixThreads -> 0 .. ITERATIONS]
      /\ pc \in [MatrixThreads ->
                   {"top", "first barrier", "multiply", "second barrier",
                    "update", "done"}]
  BY <1>1 DEF MatrixInit
<1> QED
  BY <1>3, <1>4, <1>5, <1>7, <1>8 DEF MatrixInv, MatrixTypeOK

(* The loop counters stay in the slice: when a loop begins,                *)
LEMMA CountersBegin ==
    ASSUME MatrixTypeOK, NEW t \in MatrixThreads,
           at' = [at EXCEPT ![t] = <<lowerbound(t), 0, 0>>]
    PROVE  /\ at' \in [MatrixThreads -> (0 .. n) \X Rows \X Rows]
           /\ \A u \in MatrixThreads :
                 at'[u][1] \in lowerbound(u) .. upperbound(u)
<1>1. /\ <<lowerbound(t), 0, 0>> \in (0 .. n) \X Rows \X Rows
      /\ lowerbound(t) \in lowerbound(t) .. upperbound(t)
  BY SliceInMatrix, OrderAssumption DEF Rows
<1> QED
  BY <1>1 DEF MatrixTypeOK

(* and when it goes on, in the slice still.                                *)
LEMMA CountersAdvance ==
    ASSUME MatrixTypeOK, NEW t \in MatrixThreads, InSlice(t),
           NEW terms \in {1, n},
           at' = [at EXCEPT ![t] = Advanced(at[t], terms)]
    PROVE  /\ at' \in [MatrixThreads -> (0 .. n) \X Rows \X Rows]
           /\ \A u \in MatrixThreads :
                 at'[u][1] \in lowerbound(u) .. upperbound(u)
<1>1. PICK i \in 0 .. n, k \in Rows, j \in Rows : at[t] = <<i, k, j>>
  <2>1. at[t] \in (0 .. n) \X Rows \X Rows
    BY DEF MatrixTypeOK
  <2> QED
    BY <2>1
<1>2. i \in lowerbound(t) .. upperbound(t) /\ i < upperbound(t)
  <2>1. at[t][1] \in lowerbound(t) .. upperbound(t) /\ at[t][1] < upperbound(t)
    BY DEF InSlice, MatrixTypeOK
  <2>2. at[t][1] = i
    BY <1>1
  <2> QED
    BY <2>1, <2>2
<1>3. PICK x \in 0 .. n, y \in Rows, z \in Rows :
          /\ Advanced(at[t], terms) = <<x, y, z>>
          /\ x \in lowerbound(t) .. upperbound(t)
  <2>1. /\ upperbound(t) <= n /\ upperbound(t) \in Nat /\ lowerbound(t) \in Nat
        /\ n \in Nat \ {0} /\ 0 \in Rows
    BY SliceInMatrix, OrderAssumption DEF Rows
  <2>2. CASE j + 1 < terms
    BY <1>1, <1>2, <2>1, <2>2 DEF Advanced, Rows
  <2>3. CASE ~(j + 1 < terms) /\ k + 1 < n
    BY <1>1, <1>2, <2>1, <2>3 DEF Advanced, Rows
  <2>4. CASE ~(j + 1 < terms) /\ ~(k + 1 < n)
    <3>1. Advanced(at[t], terms) = <<i + 1, 0, 0>>
      BY <1>1, <2>4 DEF Advanced
    <3>2. i + 1 \in lowerbound(t) .. upperbound(t) /\ i + 1 \in 0 .. n
      BY <1>2, <2>1
    <3> QED
      BY <2>1, <3>1, <3>2
  <2> QED
    BY <2>2, <2>3, <2>4
<1> DEFINE X == (0 .. n) \X Rows \X Rows
           new == Advanced(at[t], terms)
<1>4. at \in [MatrixThreads -> X] /\ new \in X
      /\ new[1] \in lowerbound(t) .. upperbound(t)
  <2>1. at \in [MatrixThreads -> X]
    BY DEF MatrixTypeOK
  <2>2. new \in X
    BY <1>3
  <2>3. new[1] \in lowerbound(t) .. upperbound(t)
    BY <1>3
  <2> QED
    BY <2>1, <2>2, <2>3
<1>5. \A u \in MatrixThreads : at[u][1] \in lowerbound(u) .. upperbound(u)
  BY DEF MatrixTypeOK
<1> HIDE DEF X, new
<1>6. at' = [at EXCEPT ![t] = new]
  BY DEF new
<1>7. /\ at' \in [MatrixThreads -> X]
      /\ \A u \in MatrixThreads :
            at'[u][1] \in lowerbound(u) .. upperbound(u)
  BY <1>4, <1>5, <1>6
<1> QED
  BY <1>7 DEF X

(* What MatrixTypeOK says of the counters alone.                           *)
LEMMA CountIsNat ==
    ASSUME MatrixTypeOK, NEW t \in MatrixThreads
    PROVE  count[t] \in Nat /\ count[t] <= ITERATIONS
<1>1. count \in [MatrixThreads -> 0 .. ITERATIONS]
  BY DEF MatrixTypeOK
<1> QED
  BY <1>1, IterationsAssumption

(* The row a thread is at is one of its slice, or the end of it.           *)
LEMMA RowInSlice ==
    ASSUME MatrixTypeOK, NEW t \in MatrixThreads
    PROVE  at[t][1] \in lowerbound(t) .. upperbound(t)
BY DEF MatrixTypeOK

(* Arriving at a barrier keeps the round, or ends it for all.              *)
LEMMA ArrivingKeeps ==
    ASSUME MatrixInv, NEW t \in MatrixThreads,
           FirstWait(t) \/ SecondWait(t)
    PROVE  BarrierInv'
<1>1. /\ \/ pc[t] = "top" /\ pc' = [pc EXCEPT ![t] = "first barrier"]
         \/ pc[t] = "multiply" /\ pc' = [pc EXCEPT ![t] = "second barrier"]
      /\ barrier' = Arrived(barrier, t, MatrixThreads)
      /\ count' = count
  BY DEF FirstWait, SecondWait, Move
<1>2. /\ \A u \in MatrixThreads \ {t} : pc'[u] = pc[u]
      /\ pc'[t] \in {"first barrier", "second barrier"}
      /\ t \notin barrier
  BY <1>1 DEF MatrixInv, MatrixTypeOK, BarrierInv
<1>3. barrier' \in {{}, barrier \union {t}}
  BY <1>1 DEF Arrived
<1>4. \A u \in MatrixThreads :
          /\ u \in barrier' => pc'[u] \in {"first barrier", "second barrier"}
          /\ pc'[u] # "done" => count'[u] < ITERATIONS
  BY <1>1, <1>2, <1>3 DEF MatrixInv, BarrierInv
<1>5. PICK r \in Nat : InRound(r)
  BY DEF MatrixInv, BarrierInv
<1>6. /\ ArrivedTimes(t)' = r + 1
      /\ \A u \in MatrixThreads \ {t} :
            ArrivedTimes(u)' = IF u \in barrier THEN r + 1 ELSE r
  <2>1. ArrivedTimes(t) = r
    BY <1>2, <1>5 DEF InRound
  <2>2. count[t] \in Nat
    BY CountIsNat DEF MatrixInv
  <2>3. ArrivedTimes(t)' = ArrivedTimes(t) + 1
    <3>1. t \in DOMAIN pc /\ count'[t] = count[t]
      BY <1>1 DEF MatrixInv, MatrixTypeOK
    <3>2. \/ pc[t] = "top" /\ pc'[t] = "first barrier"
          \/ pc[t] = "multiply" /\ pc'[t] = "second barrier"
      BY <1>1, <3>1
    <3>3. CASE pc[t] = "top" /\ pc'[t] = "first barrier"
      <4>1. ArrivedTimes(t) = 2 * count[t] + 0
        BY <3>3 DEF ArrivedTimes
      <4>2. ArrivedTimes(t)' = 2 * count[t] + 1
        BY <3>1, <3>3 DEF ArrivedTimes
      <4> QED
        BY <2>2, <4>1, <4>2
    <3>4. CASE pc[t] = "multiply" /\ pc'[t] = "second barrier"
      <4>1. ArrivedTimes(t) = 2 * count[t] + 1
        BY <3>4 DEF ArrivedTimes
      <4>2. ArrivedTimes(t)' = 2 * count[t] + 2
        BY <3>1, <3>4 DEF ArrivedTimes
      <4> QED
        BY <2>2, <4>1, <4>2
    <3> QED
      BY <3>2, <3>3, <3>4
  <2>4. \A u \in MatrixThreads \ {t} : ArrivedTimes(u)' = ArrivedTimes(u)
    BY <1>1, <1>2 DEF ArrivedTimes
  <2> QED
    BY <1>5, <2>1, <2>3, <2>4 DEF InRound
<1>7. CASE barrier \union {t} = MatrixThreads
  <2>1. barrier' = {}
    BY <1>1, <1>7 DEF Arrived
  <2>2. InRound(r + 1)'
    BY <1>6, <1>7, <2>1 DEF InRound
  <2>3. r + 1 \in Nat
    OBVIOUS
  <2>4. \E q \in Nat : InRound(q)'
    BY <2>2, <2>3
  <2> QED
    BY <1>4, <2>4 DEF BarrierInv
<1>8. CASE barrier \union {t} # MatrixThreads
  <2>1. barrier' = barrier \union {t}
    BY <1>1, <1>8 DEF Arrived
  <2>2. InRound(r)'
    BY <1>6, <2>1 DEF InRound
  <2> QED
    BY <1>4, <2>2 DEF BarrierInv
<1> QED
  BY <1>7, <1>8

(* Every other step leaves the number of arrivals as it is.                *)
LEMMA OthersKeep ==
    ASSUME MatrixInv, NEW t \in MatrixThreads,
           BeginMultiply(t) \/ Multiply(t) \/ BeginUpdate(t) \/ Update(t)
             \/ EndIteration(t)
    PROVE  BarrierInv'
<1>1. barrier' = barrier /\ t \notin barrier
  BY DEF BeginMultiply, Multiply, BeginUpdate, Update, EndIteration, Move,
         Released, MatrixInv, BarrierInv
<1>2. /\ pc' = pc \/ \E to : pc' = [pc EXCEPT ![t] = to]
      /\ count' = count \/ count' = [count EXCEPT ![t] = @ + 1]
      /\ pc[t] # "done"
  <2>1. CASE BeginMultiply(t) \/ BeginUpdate(t)
    BY <2>1 DEF BeginMultiply, BeginUpdate, Move
  <2>2. CASE Multiply(t) \/ Update(t)
    BY <2>2 DEF Multiply, Update
  <2>3. CASE EndIteration(t)
    BY <2>3 DEF EndIteration, Move
  <2> QED
    BY <2>1, <2>2, <2>3
<1>3. DOMAIN pc = MatrixThreads /\ DOMAIN count = MatrixThreads
  BY DEF MatrixInv, MatrixTypeOK
<1>4. /\ \A u \in MatrixThreads \ {t} : pc'[u] = pc[u] /\ count'[u] = count[u]
      /\ pc[t] # "done"
  BY <1>2, <1>3
<1>5. count[t] \in Nat /\ count[t] < ITERATIONS
  BY <1>4, CountIsNat DEF MatrixInv, BarrierInv
<1>6. /\ ArrivedTimes(t)' = ArrivedTimes(t)
      /\ pc'[t] # "done" => count'[t] < ITERATIONS
  <2>1. CASE BeginMultiply(t) \/ BeginUpdate(t)
    BY <1>5, <2>1
    DEF BeginMultiply, BeginUpdate, Move, ArrivedTimes, MatrixInv, MatrixTypeOK
  <2>2. CASE Multiply(t) \/ Update(t)
    BY <1>5, <2>2 DEF Multiply, Update, ArrivedTimes
  <2>3. CASE EndIteration(t)
    <3>1. /\ pc[t] = "update" /\ count'[t] = count[t] + 1
          /\ pc'[t] = IF count[t] + 1 < ITERATIONS THEN "top" ELSE "done"
      BY <2>3 DEF EndIteration, Move, MatrixInv, MatrixTypeOK
    <3> QED
      BY <1>5, <3>1 DEF ArrivedTimes
  <2> QED
    BY <2>1, <2>2, <2>3
<1>7. \A u \in MatrixThreads : ArrivedTimes(u)' = ArrivedTimes(u)
  BY <1>4, <1>6 DEF ArrivedTimes
<1>8. \A r \in Nat : InRound(r) => InRound(r)'
  BY <1>1, <1>7 DEF InRound
<1> QED
  BY <1>1, <1>4, <1>6, <1>8 DEF MatrixInv, BarrierInv

(* The types, action by action.                                            *)
LEMMA MatrixTypeKept ==
    ASSUME MatrixInv, NEW t \in MatrixThreads, matrixmult(t)
    PROVE  MatrixTypeOK'
<1> DEFINE PCs == {"top", "first barrier", "multiply", "second barrier",
                   "update", "done"}
<1>1. CASE FirstWait(t) \/ SecondWait(t)
  <2>1. /\ UNCHANGED <<spawned, printed, count, at>>
        /\ barrier' = Arrived(barrier, t, MatrixThreads)
        /\ pc' \in [MatrixThreads -> PCs]
    BY <1>1 DEF FirstWait, SecondWait, Move, MatrixInv, MatrixTypeOK
  <2>2. barrier' \subseteq MatrixThreads
    BY <2>1 DEF Arrived, MatrixInv, MatrixTypeOK
  <2> QED
    BY <2>1, <2>2 DEF MatrixInv, MatrixTypeOK
<1>2. CASE BeginMultiply(t) \/ BeginUpdate(t)
  <2>1. /\ UNCHANGED <<spawned, printed, count, barrier>>
        /\ pc' \in [MatrixThreads -> PCs]
        /\ at' = [at EXCEPT ![t] = <<lowerbound(t), 0, 0>>]
    BY <1>2 DEF BeginMultiply, BeginUpdate, Move, MatrixInv, MatrixTypeOK
  <2> QED
    BY <2>1, CountersBegin DEF MatrixInv, MatrixTypeOK
<1>3. CASE Multiply(t) \/ Update(t)
  <2>1. /\ UNCHANGED <<spawned, printed, pc, count, barrier>>
        /\ InSlice(t)
        /\ \E terms \in {1, n} :
              at' = [at EXCEPT ![t] = Advanced(at[t], terms)]
    BY <1>3 DEF Multiply, Update
  <2> QED
    BY <2>1, CountersAdvance DEF MatrixInv, MatrixTypeOK
<1>4. CASE EndIteration(t)
  <2>1. /\ UNCHANGED <<spawned, printed, at, barrier>>
        /\ pc[t] = "update"
        /\ pc' \in [MatrixThreads -> PCs]
        /\ count' = [count EXCEPT ![t] = @ + 1]
    BY <1>4 DEF EndIteration, Move, MatrixInv, MatrixTypeOK
  <2>2. count[t] + 1 \in 0 .. ITERATIONS
    <3>1. count[t] < ITERATIONS
      BY <2>1 DEF MatrixInv, BarrierInv
    <3> QED
      BY <3>1, CountIsNat, IterationsAssumption DEF MatrixInv
  <2> QED
    BY <2>1, <2>2 DEF MatrixInv, MatrixTypeOK
<1> QED
  BY <1>1, <1>2, <1>3, <1>4 DEF matrixmult

(* Every step keeps the invariant.                                         *)
LEMMA MatrixStep == MatrixInv /\ [MatrixNext]_matrixVars => MatrixInv'
<1> SUFFICES ASSUME MatrixInv, [MatrixNext]_matrixVars PROVE MatrixInv'
  OBVIOUS
<1>1. ASSUME UNCHANGED <<pc, count, at, barrier>>,
             spawned' \in 0 .. NUM_CORES, printed' \in BOOLEAN
      PROVE  MatrixInv'
  <2>1. MatrixTypeOK'
    BY <1>1 DEF MatrixInv, MatrixTypeOK
  <2>2. \A r \in Nat : InRound(r) => InRound(r)'
    BY <1>1 DEF InRound, ArrivedTimes
  <2> QED
    BY <1>1, <2>1, <2>2 DEF MatrixInv, BarrierInv
<1>2. CASE threadedmult
  <2>1. UNCHANGED <<pc, count, at, barrier>>
    BY <1>2 DEF threadedmult, Spawn, JoinAndPrint
  <2>2. spawned \in 0 .. NUM_CORES
    BY DEF MatrixInv, MatrixTypeOK
  <2>3. spawned' \in 0 .. NUM_CORES
    BY <1>2, <2>2, ThreadsAssumption DEF threadedmult, Spawn, JoinAndPrint
  <2>4. printed' \in BOOLEAN
    BY <1>2 DEF threadedmult, Spawn, JoinAndPrint, MatrixInv, MatrixTypeOK
  <2> QED
    BY <1>1, <2>1, <2>3, <2>4
<1>3. ASSUME NEW t \in MatrixThreads, matrixmult(t) PROVE MatrixInv'
  BY <1>3, MatrixTypeKept, ArrivingKeeps, OthersKeep DEF matrixmult, MatrixInv
<1>4. CASE UNCHANGED matrixVars
  BY <1>1, <1>4 DEF matrixVars, MatrixInv, MatrixTypeOK
<1> QED
  BY <1>2, <1>3, <1>4 DEF MatrixNext

(* An even number is no odd one.                                           *)
LEMMA Parity ==
    ASSUME NEW a \in Nat, NEW b \in Nat
    PROVE  2 * a # 2 * b + 1 /\ (2 * a = 2 * b => a = b)
OBVIOUS

(* While a thread multiplies, all are in its iteration and none updates;   *)
(* while one updates, none multiplies, and who is not in its iteration any *)
(* more is between that and the next.                                      *)
LEMMA SameIteration ==
    ASSUME MatrixInv, NEW t \in MatrixThreads, NEW u \in MatrixThreads
    PROVE  /\ pc[t] = "multiply" =>
                 /\ count[u] = count[t]
                 /\ pc[u] \in {"first barrier", "multiply", "second barrier"}
           /\ pc[t] = "update" =>
                 \/ /\ count[u] = count[t]
                    /\ pc[u] \in {"second barrier", "update"}
                 \/ /\ count[u] = count[t] + 1
                    /\ pc[u] \in {"top", "first barrier", "done"}
<1>1. PICK r \in Nat : InRound(r)
  BY DEF MatrixInv, BarrierInv
<1>2. count[t] \in Nat /\ count[u] \in Nat
  BY CountIsNat DEF MatrixInv
<1>3. /\ ArrivedTimes(u) = IF u \in barrier THEN r + 1 ELSE r
      /\ ArrivedTimes(t) = IF t \in barrier THEN r + 1 ELSE r
      /\ u \in barrier => pc[u] \in {"first barrier", "second barrier"}
      /\ t \in barrier => pc[t] \in {"first barrier", "second barrier"}
  BY <1>1 DEF InRound, MatrixInv, BarrierInv
<1>4. pc[u] \in {"top", "first barrier", "multiply", "second barrier",
                 "update", "done"}
  BY DEF MatrixInv, MatrixTypeOK
<1> DEFINE a(v) == ArrivedTimes(v)
<1>5. ASSUME NEW v \in MatrixThreads
      PROVE  /\ pc[v] \in {"top", "done"} => a(v) = 2 * count[v] + 0
             /\ pc[v] \in {"first barrier", "multiply"} => a(v) = 2 * count[v] + 1
             /\ pc[v] \in {"second barrier", "update"} => a(v) = 2 * count[v] + 2
  BY DEF ArrivedTimes
<1> HIDE DEF a
<1>6. a(u) = r \/ a(u) = r + 1
  BY <1>3 DEF a
<1>7. CASE pc[t] = "multiply"
  <2>1. a(t) = 2 * count[t] + 1 /\ a(t) = r
    BY <1>3, <1>7, <1>5 DEF a
  <2>2. CASE pc[u] \in {"top", "done"}
    <3>1. a(u) = 2 * count[u] + 0 /\ a(u) = r
      BY <1>3, <1>5, <2>2 DEF a
    <3>2. 2 * count[u] = 2 * count[t] + 1
      BY <1>2, <2>1, <3>1
    <3>3. FALSE
      BY <1>2, <3>2, Parity
    <3> QED
      BY <3>3
  <2>3. CASE pc[u] \in {"first barrier", "multiply"}
    <3>1. a(u) = 2 * count[u] + 1
      BY <1>5, <2>3
    <3>2. count[u] = count[t]
      BY <1>2, <1>6, <2>1, <3>1
    <3> QED
      BY <1>7, <2>3, <3>2
  <2>4. CASE pc[u] \in {"second barrier", "update"}
    <3>1. a(u) = 2 * count[u] + 2
      BY <1>5, <2>4
    <3>2. count[u] = count[t] /\ a(u) # r
      BY <1>2, <1>6, <2>1, <3>1
    <3>3. u \in barrier
      BY <1>3, <3>2 DEF a
    <3> QED
      BY <1>3, <1>7, <2>4, <3>2, <3>3
  <2> QED
    BY <1>4, <2>2, <2>3, <2>4
<1>8. CASE pc[t] = "update"
  <2>1. a(t) = 2 * count[t] + 2 /\ a(t) = r
    BY <1>3, <1>8, <1>5 DEF a
  <2>2. CASE pc[u] \in {"top", "done"}
    <3>1. a(u) = 2 * count[u] + 0 /\ a(u) = r
      BY <1>3, <1>5, <2>2 DEF a
    <3>2. count[u] = count[t] + 1
      BY <1>2, <2>1, <3>1
    <3> QED
      BY <1>8, <2>2, <3>2
  <2>3. CASE pc[u] \in {"first barrier", "multiply"}
    <3>1. a(u) = 2 * count[u] + 1
      BY <1>5, <2>3
    <3>2. count[u] = count[t] + 1 /\ a(u) # r
      BY <1>2, <1>6, <2>1, <3>1
    <3>3. u \in barrier
      BY <1>3, <3>2 DEF a
    <3> QED
      BY <1>3, <1>8, <2>3, <3>2, <3>3
  <2>4. CASE pc[u] \in {"second barrier", "update"}
    <3>1. a(u) = 2 * count[u] + 2
      BY <1>5, <2>4
    <3>2. 2 * count[u] = 2 * count[t] \/ 2 * count[u] = 2 * count[t] + 1
      <4>1. 2 * count[u] \in Nat /\ 2 * count[t] \in Nat
        BY <1>2
      <4>2. \/ 2 * count[u] + 2 = 2 * count[t] + 2
            \/ 2 * count[u] + 2 = (2 * count[t] + 2) + 1
        BY <1>6, <2>1, <3>1
      <4> QED
        BY <4>1, <4>2
    <3>3. count[u] = count[t]
      BY <1>2, <3>2, Parity
    <3> QED
      BY <1>8, <2>4, <3>3
  <2> QED
    BY <1>4, <2>2, <2>3, <2>4
<1> QED
  BY <1>7, <1>8

(* In one phase the slices keep the threads apart, and the phases keep the *)
(* writer of B from its readers.                                           *)
LEMMA InvNoRace == MatrixInv => NoRace
<1> SUFFICES ASSUME MatrixInv, NEW t \in MatrixThreads, NEW u \in MatrixThreads,
                    t # u, InSlice(t), InSlice(u)
             PROVE  Writes(t) \intersect (Reads(u) \union Writes(u)) = {}
  BY DEF NoRace, Writes, Reads
<1>1. at[t][1] # at[u][1]
  <2>0. \A v \in MatrixThreads :
           /\ lowerbound(v) \in Nat /\ upperbound(v) \in Nat
           /\ at[v][1] \in lowerbound(v) .. upperbound(v)
    BY SliceInMatrix, RowInSlice DEF MatrixInv
  <2>1. at[t][1] \in lowerbound(t) .. upperbound(t) - 1
    BY <2>0 DEF InSlice
  <2>2. at[u][1] \in lowerbound(u) .. upperbound(u) - 1
    BY <2>0 DEF InSlice
  <2> QED
    BY <2>1, <2>2, SlicesDisjoint
<1>2. pc[t] = "multiply" => pc[u] # "update"
  BY SameIteration
<1>3. pc[u] = "multiply" => pc[t] # "update"
  BY SameIteration
<1> QED
  BY <1>1, <1>2, <1>3 DEF Writes, Reads

(* Loop counters stay within slice and matrix, for any number of threads,  *)
(* rows and iterations.                                                    *)
THEOREM MatrixTypeCorrect == MatrixSpec => []MatrixTypeOK
<1>1. MatrixInv => MatrixTypeOK
  BY DEF MatrixInv
<1> QED
  BY <1>1, MatrixInitial, MatrixStep, PTL DEF MatrixSpec

(* No two threads of the matrix workload are ever about to access the same *)
(* entry, one of them writing it: the two barriers and the slices suffice. *)
THEOREM NoRaceHolds == MatrixSpec => []NoRace
BY MatrixInitial, MatrixStep, InvNoRace, PTL DEF MatrixSpec

(* One iteration by one thread alone.                                      *)
Terms(M, x) == [j \in Rows |-> A[<<x[1], j>>] * M[<<j, x[2]>>]]
Iterated(before) ==
    LET newC == [x \in Entries |->
                    before.C[x] + SumFunction(Terms(before.B, x))]
    IN  [B |-> [x \in Entries |-> newC[x] \div 13 + A[x]], C |-> newC]

(* The recursive definition has the value it describes.                    *)
LEMMA SequentiallyIterates ==
    /\ Sequentially[0] = [B |-> InitialB, C |-> InitialC]
    /\ \A r \in 0 .. ITERATIONS - 1 :
          Sequentially[r + 1] = Iterated(Sequentially[r])
<1> DEFINE Of(g, r) == IF r = 0 THEN [B |-> InitialB, C |-> InitialC]
                       ELSE Iterated(g[r - 1])
           Good == {k \in Nat : \E g : g = [r \in 0 .. k |-> Of(g, r)]}
<1>1. 0 \in Good
  <2> DEFINE g == [r \in 0 .. 0 |-> [B |-> InitialB, C |-> InitialC]]
  <2>1. g = [r \in 0 .. 0 |-> Of(g, r)]
    <3>1. \A r \in 0 .. 0 : r = 0
      OBVIOUS
    <3> QED
      BY <3>1
  <2> HIDE DEF g, Of
  <2> QED
    BY <2>1
<1>2. ASSUME NEW k \in Nat, k \in Good PROVE k + 1 \in Good
  <2> HIDE DEF Of
  <2>1. PICK g : g = [r \in 0 .. k |-> Of(g, r)]
    BY <1>2
  <2> DEFINE h == [r \in 0 .. k + 1 |-> Of(g, r)]
  <2>2. \A r \in 0 .. k : h[r] = g[r]
    BY <2>1
  <2>3. \A r \in 0 .. k + 1 : Of(g, r) = Of(h, r)
    <3> HIDE DEF h
    <3> SUFFICES ASSUME NEW r \in 0 .. k + 1, r # 0 PROVE g[r - 1] = h[r - 1]
      BY DEF Of
    <3>1. r - 1 \in 0 .. k
      OBVIOUS
    <3> QED
      BY <2>2, <3>1
  <2>4. h = [r \in 0 .. k + 1 |-> Of(h, r)]
    <3>1. h = [r \in 0 .. k + 1 |-> Of(g, r)]
      OBVIOUS
    <3> HIDE DEF h
    <3> QED
      BY <2>3, <3>1
  <2> HIDE DEF h
  <2> QED
    BY <2>4
<1> HIDE DEF Good, Of
<1>3. ITERATIONS \in Good
  BY <1>1, <1>2, NaturalInduction, IterationsAssumption
<1>4. Sequentially = CHOOSE g : g = [r \in 0 .. ITERATIONS |-> Of(g, r)]
  BY DEF Sequentially, Of, Iterated, Terms
<1>5. Sequentially = [r \in 0 .. ITERATIONS |-> Of(Sequentially, r)]
  <2>1. PICK g : g = [r \in 0 .. ITERATIONS |-> Of(g, r)]
    BY <1>3 DEF Good
  <2> QED
    BY <1>4, <2>1, Zenon
<1>6. \A r \in 0 .. ITERATIONS : Sequentially[r] = Of(Sequentially, r)
  BY <1>5, Zenon
<1>7. Sequentially[0] = [B |-> InitialB, C |-> InitialC]
  BY <1>6, IterationsAssumption DEF Of
<1>8. ASSUME NEW r \in 0 .. ITERATIONS - 1
      PROVE  Sequentially[r + 1] = Iterated(Sequentially[r])
  <2>1. r + 1 \in 0 .. ITERATIONS /\ r + 1 # 0 /\ (r + 1) - 1 = r
    BY IterationsAssumption
  <2>2. Of(Sequentially, r + 1) = Iterated(Sequentially[(r + 1) - 1])
    BY <2>1, Zenon DEF Of
  <2> QED
    BY <1>6, <2>1, <2>2
<1> QED
  BY <1>7, <1>8

(* The matrices have integer entries at the start.                         *)
LEMMA InitialTypes ==
    /\ A \in [Entries -> Int] /\ InitialB \in [Entries -> Int]
    /\ InitialC \in [Entries -> Int]
<1>1. \A x \in Entries : n * x[1] + x[2] \in Int
  <2> SUFFICES ASSUME NEW i \in Rows, NEW k \in Rows PROVE n * i + k \in Int
    BY DEF Entries
  <2>1. n \in Int /\ i \in Int /\ k \in Int
    BY OrderAssumption DEF Rows
  <2> QED
    BY <2>1, SMT
<1> QED
  BY <1>1 DEF A, InitialB, InitialC

(* The first k terms of an entry of the product of A and M, added up.      *)
PartialProduct(M, x, k) == SumFunctionOnSet(Terms(M, x), 0 .. k - 1)

(* The terms of a product one after the other.                             *)
LEMMA PartialProducts ==
    ASSUME NEW M \in [Entries -> Int], NEW x \in Entries
    PROVE  /\ PartialProduct(M, x, 0) = 0
           /\ PartialProduct(M, x, n) = SumFunction(Terms(M, x))
           /\ \A k \in 0 .. n : PartialProduct(M, x, k) \in Int
           /\ \A k \in Rows : PartialProduct(M, x, k + 1) =
                 PartialProduct(M, x, k) + A[<<x[1], k>>] * M[<<k, x[2]>>]
<1> DEFINE f == Terms(M, x)
<1>1. \A j \in Rows : /\ f[j] \in Int
                      /\ f[j] = A[<<x[1], j>>] * M[<<j, x[2]>>]
  <2> SUFFICES ASSUME NEW j \in Rows
               PROVE  A[<<x[1], j>>] * M[<<j, x[2]>>] \in Int
    BY DEF Terms
  <2>1. <<x[1], j>> \in Entries /\ <<j, x[2]>> \in Entries
    BY DEF Entries
  <2>2. A[<<x[1], j>>] \in Int /\ M[<<j, x[2]>>] \in Int
    BY <2>1, InitialTypes
  <2> QED
    BY <2>2
<1>2. \A k \in 0 .. n : IsFiniteSet(0 .. k - 1) /\ 0 .. k - 1 \subseteq Rows
  BY OrderAssumption, FS_Interval DEF Rows
<1>3. DOMAIN f = 0 .. n - 1
  BY DEF Terms, Rows
<1> HIDE DEF f
<1>4. PartialProduct(M, x, 0) = 0
  <2>1. 0 .. 0 - 1 = {}
    OBVIOUS
  <2> QED
    BY <2>1, SumEmpty DEF PartialProduct, f
<1>5. PartialProduct(M, x, n) = SumFunction(Terms(M, x))
  BY <1>3 DEF PartialProduct, SumFunction, f
<1>6. \A k \in 0 .. n : SumFunctionOnSet(f, 0 .. k - 1) \in Int
  BY <1>1, <1>2, SumType
<1>7. ASSUME NEW k \in Rows
      PROVE  SumFunctionOnSet(f, 0 .. (k + 1) - 1) =
                SumFunctionOnSet(f, 0 .. k - 1) + f[k]
  <2> DEFINE T == 0 .. (k + 1) - 1
  <2>1. k \in Nat /\ k + 1 \in 0 .. n /\ k \in 0 .. n
    BY OrderAssumption DEF Rows
  <2>2. IsFiniteSet(T) /\ \A j \in T : f[j] \in Int
    BY <1>1, <1>2, <2>1
  <2>3. k \in T /\ T \ {k} = 0 .. k - 1
    BY <2>1
  <2> HIDE DEF T
  <2>4. SumFunctionOnSet(f, T) = f[k] + SumFunctionOnSet(f, 0 .. k - 1)
    <3>1. SumFunctionOnSet(f, T) = f[k] + SumFunctionOnSet(f, T \ {k})
      BY <2>2, <2>3, SumWithout
    <3> QED
      BY <2>3, <3>1
  <2>5. SumFunctionOnSet(f, 0 .. k - 1) \in Int /\ f[k] \in Int
    BY <1>1, <1>6, <2>1
  <2> QED
    BY <2>4, <2>5 DEF T
<1> QED
  BY <1>1, <1>4, <1>5, <1>6, <1>7 DEF PartialProduct, f

(* The matrices that one thread alone computes: integers, and each entry   *)
(* from those of the iteration before.                                     *)
Alone(r) == Sequentially[r]

(* The matrices of one thread alone have integer entries.                  *)
LEMMA AloneTypes ==
    ASSUME NEW r \in 0 .. ITERATIONS
    PROVE  Alone(r).B \in [Entries -> Int] /\ Alone(r).C \in [Entries -> Int]
<1> DEFINE Typed(s) == s.B \in [Entries -> Int] /\ s.C \in [Entries -> Int]
           Good == {k \in Nat : k <= ITERATIONS => Typed(Alone(k))}
<1>1. 0 \in Good
  BY SequentiallyIterates, InitialTypes DEF Alone
<1>2. ASSUME NEW k \in Nat, k \in Good PROVE k + 1 \in Good
  <2> SUFFICES ASSUME k + 1 <= ITERATIONS PROVE Typed(Alone(k + 1))
    OBVIOUS
  <2> DEFINE s == Alone(k)
             newC == [x \in Entries |-> s.C[x] + SumFunction(Terms(s.B, x))]
             newB == [x \in Entries |-> newC[x] \div 13 + A[x]]
  <2>1. k \in 0 .. ITERATIONS - 1
    BY IterationsAssumption
  <2>2. Typed(s)
    BY <1>2, <2>1, IterationsAssumption
  <2>3. Alone(k + 1).B = newB /\ Alone(k + 1).C = newC
    <3>1. Alone(k + 1) = Iterated(s)
      BY <2>1, SequentiallyIterates DEF Alone
    <3>2. Iterated(s) = [B |-> newB, C |-> newC]
      BY DEF Iterated
    <3> HIDE DEF newB, newC, s
    <3> QED
      BY <3>1, <3>2
  <2>4. newC \in [Entries -> Int]
    <3> HIDE DEF s
    <3> SUFFICES ASSUME NEW x \in Entries
                 PROVE  s.C[x] + SumFunction(Terms(s.B, x)) \in Int
      OBVIOUS
    <3>1. s.C[x] \in Int /\ s.B \in [Entries -> Int]
      BY <2>2
    <3>2. n \in 0 .. n
      BY OrderAssumption
    <3>3. SumFunction(Terms(s.B, x)) \in Int
      BY <3>1, <3>2, PartialProducts
    <3> QED
      BY <3>1, <3>3
  <2> HIDE DEF newC
  <2>5. newB \in [Entries -> Int]
    <3> SUFFICES ASSUME NEW x \in Entries PROVE newC[x] \div 13 + A[x] \in Int
      OBVIOUS
    <3>1. newC[x] \in Int /\ A[x] \in Int
      BY <2>4, InitialTypes
    <3> QED
      BY <3>1
  <2> QED
    BY <2>3, <2>4, <2>5
<1> HIDE DEF Good
<1>3. Nat \subseteq Good
  BY <1>1, <1>2, NaturalInduction
<1> QED
  BY <1>3, IterationsAssumption DEF Good

(* An iteration of one thread alone, entry by entry.                       *)
LEMMA AloneIterates ==
    ASSUME NEW r \in 0 .. ITERATIONS - 1, NEW x \in Entries
    PROVE  /\ Alone(r + 1).C[x] =
                 Alone(r).C[x] + PartialProduct(Alone(r).B, x, n)
           /\ Alone(r + 1).B[x] = Alone(r + 1).C[x] \div 13 + A[x]
<1>1. r \in 0 .. ITERATIONS
  BY IterationsAssumption
<1>2. PartialProduct(Alone(r).B, x, n) = SumFunction(Terms(Alone(r).B, x))
  BY <1>1, AloneTypes, PartialProducts
<1> DEFINE s == Alone(r)
           newC == [y \in Entries |-> s.C[y] + SumFunction(Terms(s.B, y))]
           newB == [y \in Entries |-> newC[y] \div 13 + A[y]]
<1>3. Alone(r + 1) = Iterated(s)
  BY SequentiallyIterates DEF Alone
<1>4. Iterated(s) = [B |-> newB, C |-> newC]
  BY DEF Iterated
<1>5. /\ newC[x] = s.C[x] + SumFunction(Terms(s.B, x))
      /\ newB[x] = newC[x] \div 13 + A[x]
  OBVIOUS
<1> HIDE DEF newC, newB, s
<1>6. Alone(r + 1).B = newB /\ Alone(r + 1).C = newC
  BY <1>3, <1>4
<1> QED
  BY <1>2, <1>5, <1>6 DEF s

(* Every row is in the slice of a thread.                                  *)
LEMMA RowOwned ==
    ASSUME NEW i \in Rows
    PROVE  \E t \in MatrixThreads : i \in lowerbound(t) .. upperbound(t) - 1
<1> SUFFICES ASSUME \A t \in MatrixThreads :
                       i \notin lowerbound(t) .. upperbound(t) - 1
             PROVE  FALSE
  OBVIOUS
<1> DEFINE Good == {m \in Nat : m < NUM_CORES => lowerbound(m) <= i}
<1>1. NUM_CORES \in Nat \ {0} /\ n \in Nat /\ i \in Nat /\ i < n /\ Step \in Nat
  BY ThreadsAssumption, OrderAssumption, StepFits DEF Rows
<1>2. 0 \in Good
  <2>1. 0 * Step = 0
    BY <1>1
  <2> QED
    BY <1>1, <2>1 DEF lowerbound, Step
<1>3. ASSUME NEW m \in Nat, m \in Good PROVE m + 1 \in Good
  <2> SUFFICES ASSUME m + 1 < NUM_CORES PROVE lowerbound(m + 1) <= i
    OBVIOUS
  <2>1. m \in MatrixThreads /\ lowerbound(m) <= i /\ m # NUM_CORES - 1
    BY <1>1, <1>3 DEF MatrixThreads
  <2>2. upperbound(m) = lowerbound(m + 1)
    BY <2>1 DEF upperbound, lowerbound
  <2>3. lowerbound(m) \in Nat /\ upperbound(m) \in Nat
    BY <2>1, SliceInMatrix
  <2>4. ~(i < upperbound(m))
    BY <1>1, <2>1, <2>3
  <2> QED
    BY <1>1, <2>2, <2>3, <2>4
<1> HIDE DEF Good
<1>4. NUM_CORES - 1 \in Good
  BY <1>1, <1>2, <1>3, NaturalInduction
<1> DEFINE last == NUM_CORES - 1
<1>5. last \in MatrixThreads /\ upperbound(last) = n /\ lowerbound(last) <= i
  BY <1>1, <1>4 DEF MatrixThreads, upperbound, Good
<1>6. lowerbound(last) \in Nat
  BY <1>5, SliceInMatrix
<1> QED
  BY <1>1, <1>5, <1>6

(* The entries that thread t computes; those its loops have passed; and,   *)
(* of the terms of one, those it has added to C in this iteration.         *)
EntriesOf(t) == {x \in Entries : x[1] \in lowerbound(t) .. upperbound(t) - 1}

Passed(t, x) == x[1] < at[t][1] \/ (x[1] = at[t][1] /\ x[2] < at[t][2])

Current(t) == <<at[t][1], at[t][2]>>

AddedTerms(t, x) ==
    IF pc[t] \in {"second barrier", "update"} THEN n
    ELSE IF pc[t] # "multiply" THEN 0
    ELSE IF Passed(t, x) THEN n
    ELSE IF x = Current(t) THEN at[t][3] ELSE 0

(* An entry of C and one of B, as far as their thread is with them.        *)
EntryInv(t, x) ==
    /\ C[x] = Alone(count[t]).C[x]
                + PartialProduct(Alone(count[t]).B, x, AddedTerms(t, x))
    /\ B[x] = IF pc[t] = "update" /\ Passed(t, x)
              THEN Alone(count[t] + 1).B[x] ELSE Alone(count[t]).B[x]

DataInv ==
    /\ B \in [Entries -> Int] /\ C \in [Entries -> Int]
    /\ \A t \in MatrixThreads : \A x \in EntriesOf(t) : EntryInv(t, x)
    /\ \A t \in MatrixThreads : pc[t] = "done" => count[t] = ITERATIONS
    /\ printed => \A t \in MatrixThreads : pc[t] = "done"

(* Each entry is in the slice of a thread.                                 *)
LEMMA EntryOwned ==
    ASSUME NEW x \in Entries
    PROVE  \E t \in MatrixThreads : x \in EntriesOf(t)
<1>1. x[1] \in Rows
  BY DEF Entries
<1>2. PICK t \in MatrixThreads : x[1] \in lowerbound(t) .. upperbound(t) - 1
  BY <1>1, RowOwned
<1> QED
  BY <1>2 DEF EntriesOf

(* And in the slice of no other.                                           *)
LEMMA EntriesApart ==
    ASSUME NEW t \in MatrixThreads, NEW u \in MatrixThreads, t # u,
           NEW x \in EntriesOf(t)
    PROVE  x \notin EntriesOf(u)
BY SlicesDisjoint DEF EntriesOf

(* So the whole of B is that of the last iteration while a thread          *)
(* multiplies, and the whole of C that of this one while one updates.      *)
LEMMA Whole ==
    ASSUME MatrixInv, DataInv, NEW t \in MatrixThreads
    PROVE  /\ pc[t] = "multiply" => B = Alone(count[t]).B
           /\ pc[t] = "update" => C = Alone(count[t] + 1).C
           /\ printed => C = Alone(ITERATIONS).C
<1>1. \A u \in MatrixThreads : /\ count[u] \in 0 .. ITERATIONS /\ count[u] \in Nat
                               /\ pc[u] # "done" => count[u] \in 0 .. ITERATIONS - 1
  <2> SUFFICES ASSUME NEW u \in MatrixThreads
               PROVE  /\ count[u] \in 0 .. ITERATIONS /\ count[u] \in Nat
                      /\ pc[u] # "done" => count[u] \in 0 .. ITERATIONS - 1
    OBVIOUS
  <2>1. /\ count[u] \in Nat /\ count[u] <= ITERATIONS
        /\ pc[u] # "done" => count[u] < ITERATIONS
    BY CountIsNat DEF MatrixInv, BarrierInv
  <2> QED
    BY <2>1, IterationsAssumption
<1>2. ASSUME pc[t] = "multiply" PROVE B = Alone(count[t]).B
  <2>1. ASSUME NEW x \in Entries PROVE B[x] = Alone(count[t]).B[x]
    <3>1. PICK u \in MatrixThreads : x \in EntriesOf(u)
      BY EntryOwned
    <3>2. count[u] = count[t] /\ pc[u] # "update"
      BY <1>2, SameIteration
    <3> QED
      BY <3>1, <3>2 DEF DataInv, EntryInv
  <2>2. Alone(count[t]).B \in [Entries -> Int] /\ B \in [Entries -> Int]
    BY <1>1, AloneTypes DEF DataInv
  <2> QED
    BY <2>1, <2>2
<1>3. ASSUME NEW u \in MatrixThreads, NEW x \in EntriesOf(u), pc[u] # "multiply"
      PROVE  C[x] = IF pc[u] \in {"second barrier", "update"}
                    THEN Alone(count[u] + 1).C[x] ELSE Alone(count[u]).C[x]
  <2>1. C[x] = Alone(count[u]).C[x]
                 + PartialProduct(Alone(count[u]).B, x, AddedTerms(u, x))
    BY DEF DataInv, EntryInv
  <2>2. x \in Entries
    BY DEF EntriesOf
  <2>3. /\ Alone(count[u]).C[x] \in Int /\ Alone(count[u]).B \in [Entries -> Int]
        /\ PartialProduct(Alone(count[u]).B, x, 0) = 0
    BY <1>1, <2>2, AloneTypes, PartialProducts
  <2>4. CASE pc[u] \in {"second barrier", "update"}
    <3>1. count[u] \in 0 .. ITERATIONS - 1 /\ AddedTerms(u, x) = n
      BY <1>1, <2>4 DEF AddedTerms
    <3>2. C[x] = Alone(count[u] + 1).C[x]
      BY <2>1, <2>2, <3>1, AloneIterates
    <3> QED
      BY <2>4, <3>2
  <2>5. CASE pc[u] \notin {"second barrier", "update"}
    <3>1. AddedTerms(u, x) = 0
      BY <1>3, <2>5 DEF AddedTerms
    <3>2. C[x] = Alone(count[u]).C[x]
      BY <2>1, <2>3, <3>1
    <3> QED
      BY <2>5, <3>2
  <2> QED
    BY <2>4, <2>5
<1>4. ASSUME pc[t] = "update" PROVE C = Alone(count[t] + 1).C
  <2>1. ASSUME NEW x \in Entries PROVE C[x] = Alone(count[t] + 1).C[x]
    <3>1. PICK u \in MatrixThreads : x \in EntriesOf(u)
      BY EntryOwned
    <3>2. \/ count[u] = count[t] /\ pc[u] \in {"second barrier", "update"}
          \/ /\ count[u] = count[t] + 1
             /\ pc[u] \in {"top", "first barrier", "done"}
      BY <1>4, SameIteration
    <3> QED
      BY <1>3, <3>1, <3>2
  <2>2. count[t] + 1 \in 0 .. ITERATIONS
    BY <1>1, <1>4, IterationsAssumption
  <2>3. Alone(count[t] + 1).C \in [Entries -> Int] /\ C \in [Entries -> Int]
    BY <2>2, AloneTypes DEF DataInv
  <2> QED
    BY <2>1, <2>3
<1>5. ASSUME printed PROVE C = Alone(ITERATIONS).C
  <2>1. ASSUME NEW x \in Entries PROVE C[x] = Alone(ITERATIONS).C[x]
    <3>1. PICK u \in MatrixThreads : x \in EntriesOf(u)
      BY EntryOwned
    <3>2. pc[u] = "done" /\ count[u] = ITERATIONS
      BY <1>5 DEF DataInv
    <3> QED
      BY <1>3, <3>1, <3>2
  <2>2. Alone(ITERATIONS).C \in [Entries -> Int] /\ C \in [Entries -> Int]
    BY AloneTypes, IterationsAssumption DEF DataInv
  <2> QED
    BY <2>1, <2>2
<1> QED
  BY <1>2, <1>4, <1>5

(* A loop that goes on passes an entry when it has taken its last term.    *)
LEMMA PassedAdvances ==
    ASSUME MatrixTypeOK, NEW t \in MatrixThreads, InSlice(t),
           NEW terms \in {1, n},
           at' = [at EXCEPT ![t] = Advanced(at[t], terms)]
    PROVE  /\ Current(t) \in EntriesOf(t) /\ at[t][3] \in Rows
           /\ ~Passed(t, Current(t))
           /\ at[t][3] + 1 < terms =>
                 /\ Current(t)' = Current(t) /\ at'[t][3] = at[t][3] + 1
                 /\ \A x \in Entries : Passed(t, x)' <=> Passed(t, x)
           /\ ~(at[t][3] + 1 < terms) =>
                 /\ at'[t][3] = 0
                 /\ \A x \in Entries :
                       Passed(t, x)' <=> Passed(t, x) \/ x = Current(t)
<1>0. PICK e, j : e = Current(t) /\ j = at[t][3]
  OBVIOUS
<1>1. PICK i \in 0 .. n, k \in Rows, l \in Rows : at[t] = <<i, k, l>>
  <2>1. at[t] \in (0 .. n) \X Rows \X Rows
    BY DEF MatrixTypeOK
  <2> QED
    BY <2>1
<1>2. e = <<i, k>> /\ l = j /\ at[t][1] = i /\ at[t][2] = k /\ at[t][3] = j
  BY <1>0, <1>1 DEF Current
<1>3. /\ i \in lowerbound(t) .. upperbound(t) - 1 /\ i \in Rows
      /\ lowerbound(t) \in Nat /\ upperbound(t) \in Nat /\ upperbound(t) <= n
  <2>1. i \in lowerbound(t) .. upperbound(t) /\ i < upperbound(t)
    BY <1>2, RowInSlice DEF InSlice
  <2> QED
    BY <2>1, SliceInMatrix, OrderAssumption DEF Rows
<1>4. e \in EntriesOf(t)
  BY <1>2, <1>3 DEF EntriesOf, Entries
<1>5. ~Passed(t, e)
  BY <1>2, <1>3 DEF Passed, Rows
<1>6. at'[t] = Advanced(<<i, k, j>>, terms)
  BY <1>1, <1>2 DEF MatrixTypeOK
<1>7. ASSUME j + 1 < terms
      PROVE  /\ Current(t)' = e /\ at'[t][3] = j + 1
             /\ \A x \in Entries : Passed(t, x)' <=> Passed(t, x)
  <2>1. at'[t] = <<i, k, j + 1>>
    BY <1>6, <1>7 DEF Advanced
  <2> QED
    BY <1>2, <2>1 DEF Passed, Current
<1>8. ASSUME ~(j + 1 < terms)
      PROVE  /\ at'[t][3] = 0
             /\ \A x \in Entries : Passed(t, x)' <=> Passed(t, x) \/ x = e
  <2>1. CASE k + 1 < n
    <3>1. at'[t] = <<i, k + 1, 0>>
      BY <1>6, <1>8, <2>1 DEF Advanced
    <3>2. ASSUME NEW a \in Rows, NEW b \in Rows
          PROVE  Passed(t, <<a, b>>)' <=> Passed(t, <<a, b>>) \/ <<a, b>> = e
      <4>1. Passed(t, <<a, b>>)' <=> a < i \/ (a = i /\ b < k + 1)
        BY <3>1 DEF Passed
      <4>2. Passed(t, <<a, b>>) <=> a < i \/ (a = i /\ b < k)
        BY <1>2 DEF Passed
      <4>3. b < k + 1 <=> b < k \/ b = k
        BY DEF Rows
      <4> QED
        BY <1>2, <4>1, <4>2, <4>3
    <3> QED
      BY <3>1, <3>2 DEF Entries
  <2>2. CASE ~(k + 1 < n)
    <3>1. at'[t] = <<i + 1, 0, 0>>
      BY <1>6, <1>8, <2>2 DEF Advanced
    <3>2. ASSUME NEW a \in Rows, NEW b \in Rows
          PROVE  Passed(t, <<a, b>>)' <=> Passed(t, <<a, b>>) \/ <<a, b>> = e
      <4>1. Passed(t, <<a, b>>)' <=> a < i + 1 \/ (a = i + 1 /\ b < 0)
        BY <3>1 DEF Passed
      <4>2. Passed(t, <<a, b>>) <=> a < i \/ (a = i /\ b < k)
        BY <1>2 DEF Passed
      <4>3. (b < k \/ b = k) /\ ~(b < 0) /\ (a < i + 1 <=> a < i \/ a = i)
        BY <2>2, <1>3, OrderAssumption DEF Rows
      <4> QED
        BY <1>2, <4>1, <4>2, <4>3
    <3> QED
      BY <3>1, <3>2 DEF Entries
  <2> QED
    BY <2>1, <2>2
<1> QED
  BY <1>0, <1>2, <1>4, <1>5, <1>7, <1>8

(* A loop that begins has passed nothing of its slice, and one that ends   *)
(* has passed all of it.                                                   *)
LEMMA PassedAtEnds ==
    ASSUME MatrixTypeOK, NEW t \in MatrixThreads, NEW x \in EntriesOf(t)
    PROVE  /\ ~InSlice(t) => Passed(t, x)
           /\ at' = [at EXCEPT ![t] = <<lowerbound(t), 0, 0>>] =>
                 ~Passed(t, x)' /\ at'[t][3] = 0
<1>1. /\ x[1] \in lowerbound(t) .. upperbound(t) - 1 /\ x[2] \in Nat
      /\ x \in Entries
  BY DEF EntriesOf, Entries, Rows
<1>2. /\ at[t][1] \in lowerbound(t) .. upperbound(t)
      /\ lowerbound(t) \in Nat /\ upperbound(t) \in Nat
  BY RowInSlice, SliceInMatrix
<1>3. ~InSlice(t) => Passed(t, x)
  BY <1>1, <1>2 DEF InSlice, Passed
<1>4. ASSUME at' = [at EXCEPT ![t] = <<lowerbound(t), 0, 0>>]
      PROVE  ~Passed(t, x)' /\ at'[t][3] = 0
  <2>1. at'[t] = <<lowerbound(t), 0, 0>>
    BY <1>4 DEF MatrixTypeOK
  <2> QED
    BY <1>1, <1>2, <2>1 DEF Passed
<1> QED
  BY <1>3, <1>4

(* An entry keeps its place in the computation when nothing of it moves.   *)
LEMMA EntryKept ==
    ASSUME NEW t, NEW x, EntryInv(t, x),
           count'[t] = count[t], B'[x] = B[x], C'[x] = C[x],
           AddedTerms(t, x)' = AddedTerms(t, x),
           (pc[t] = "update" /\ Passed(t, x))' <=>
              (pc[t] = "update" /\ Passed(t, x))
    PROVE  EntryInv(t, x)'
<1> DEFINE k == AddedTerms(t, x)
           l == AddedTerms(t, x)'
<1>1. k = l
  OBVIOUS
<1> HIDE DEF k, l
<1>2. C'[x] = Alone(count'[t]).C[x] + PartialProduct(Alone(count'[t]).B, x, l)
  BY <1>1 DEF EntryInv, k
<1>3. B'[x] = IF (pc[t] = "update" /\ Passed(t, x))'
              THEN Alone(count'[t] + 1).B[x] ELSE Alone(count'[t]).B[x]
  BY DEF EntryInv
<1> QED
  BY <1>2, <1>3 DEF EntryInv, l, Alone, PartialProduct, Terms, A

(* The steps of a thread leave the entries of the others where they are.   *)
LEMMA OthersEntries ==
    ASSUME MatrixTypeOK, DataInv, NEW t \in MatrixThreads, matrixmult(t),
           NEW u \in MatrixThreads, u # t, NEW x \in EntriesOf(u)
    PROVE  EntryInv(u, x)'
<1>1. /\ pc'[u] = pc[u] /\ count'[u] = count[u] /\ at'[u] = at[u]
  <2>1. /\ pc \in [MatrixThreads -> {"top", "first barrier", "multiply",
                                     "second barrier", "update", "done"}]
        /\ DOMAIN count = MatrixThreads /\ DOMAIN at = MatrixThreads
    BY DEF MatrixTypeOK
  <2>2. CASE FirstWait(t) \/ SecondWait(t) \/ EndIteration(t)
    BY <2>1, <2>2 DEF FirstWait, SecondWait, EndIteration, Move
  <2>3. CASE BeginMultiply(t) \/ BeginUpdate(t)
    BY <2>1, <2>3 DEF BeginMultiply, BeginUpdate, Move
  <2>4. CASE Multiply(t) \/ Update(t)
    BY <2>1, <2>4 DEF Multiply, Update
  <2> QED
    BY <2>2, <2>3, <2>4 DEF matrixmult
<1>2. B'[x] = B[x] /\ C'[x] = C[x]
  <2>1. ASSUME InSlice(t) PROVE x # <<at[t][1], at[t][2]>>
    <3>1. at[t][1] \in lowerbound(t) .. upperbound(t) - 1
      BY <2>1, RowInSlice, SliceInMatrix DEF InSlice
    <3>2. x[1] \in lowerbound(u) .. upperbound(u) - 1
      BY DEF EntriesOf
    <3> QED
      BY <3>1, <3>2, SlicesDisjoint
  <2>2. x \in Entries /\ DOMAIN B = Entries /\ DOMAIN C = Entries
    BY DEF EntriesOf, DataInv
  <2>3. CASE Multiply(t)
    BY <2>1, <2>2, <2>3 DEF Multiply
  <2>4. CASE Update(t)
    BY <2>1, <2>2, <2>4 DEF Update
  <2>5. CASE ~Multiply(t) /\ ~Update(t)
    BY <2>5 DEF matrixmult, FirstWait, BeginMultiply, SecondWait, BeginUpdate,
                EndIteration
  <2> QED
    BY <2>3, <2>4, <2>5
<1>3. Passed(u, x)' <=> Passed(u, x)
  BY <1>1 DEF Passed
<1>4. AddedTerms(u, x)' = AddedTerms(u, x)
  BY <1>1, <1>3 DEF AddedTerms, Current
<1>5. EntryInv(u, x)
  BY DEF DataInv
<1> QED
  BY <1>1, <1>2, <1>3, <1>4, <1>5, EntryKept

(* A thread at a barrier, or about to begin a loop, does not touch its own *)
(* entries either.                                                         *)
LEMMA OwnEntriesKept ==
    ASSUME MatrixTypeOK, DataInv, NEW t \in MatrixThreads,
           FirstWait(t) \/ BeginMultiply(t) \/ SecondWait(t) \/ BeginUpdate(t),
           NEW x \in EntriesOf(t)
    PROVE  EntryInv(t, x)'
<1>1. /\ count' = count /\ B' = B /\ C' = C
      /\ DOMAIN pc = MatrixThreads
  BY DEF FirstWait, BeginMultiply, SecondWait, BeginUpdate, MatrixTypeOK
<1>2. AddedTerms(t, x)' = AddedTerms(t, x)
  <2>1. CASE FirstWait(t)
    <3>1. pc[t] = "top" /\ pc'[t] = "first barrier"
      BY <1>1, <2>1 DEF FirstWait, Move
    <3> QED
      BY <3>1 DEF AddedTerms
  <2>2. CASE BeginMultiply(t)
    <3>1. /\ pc[t] = "first barrier" /\ pc'[t] = "multiply"
          /\ ~Passed(t, x)' /\ at'[t][3] = 0
      BY <1>1, <2>2, PassedAtEnds DEF BeginMultiply, Move
    <3> QED
      BY <3>1 DEF AddedTerms
  <2>3. CASE SecondWait(t)
    <3>1. pc[t] = "multiply" /\ pc'[t] = "second barrier" /\ Passed(t, x)
      BY <1>1, <2>3, PassedAtEnds DEF SecondWait, Move
    <3> QED
      BY <3>1 DEF AddedTerms
  <2>4. CASE BeginUpdate(t)
    <3>1. pc[t] = "second barrier" /\ pc'[t] = "update"
      BY <1>1, <2>4 DEF BeginUpdate, Move
    <3> QED
      BY <3>1 DEF AddedTerms
  <2> QED
    BY <2>1, <2>2, <2>3, <2>4
<1>3. pc[t] # "update"
  BY DEF FirstWait, BeginMultiply, SecondWait, BeginUpdate, Move
<1>4. ~(pc[t] = "update" /\ Passed(t, x))'
  <2>1. CASE BeginUpdate(t)
    BY <2>1, PassedAtEnds DEF BeginUpdate
  <2>2. CASE ~BeginUpdate(t)
    BY <1>1, <2>2 DEF FirstWait, BeginMultiply, SecondWait, Move
  <2> QED
    BY <2>1, <2>2
<1>5. EntryInv(t, x)
  BY DEF DataInv
<1> QED
  BY <1>1, <1>2, <1>3, <1>4, <1>5, EntryKept

(* The next term of an entry of C, of the B of the last iteration.         *)
LEMMA MultiplyEntries ==
    ASSUME MatrixInv, DataInv, NEW t \in MatrixThreads, Multiply(t),
           NEW x \in EntriesOf(t)
    PROVE  EntryInv(t, x)'
<1>0. PICK e, j : e = Current(t) /\ j = at[t][3]
  OBVIOUS
<1>1. /\ pc[t] = "multiply" /\ InSlice(t) /\ MatrixTypeOK
      /\ C' = [C EXCEPT ![e] = @ + A[<<e[1], j>>] * B[<<j, e[2]>>]]
      /\ at' = [at EXCEPT ![t] = Advanced(at[t], n)]
      /\ pc' = pc /\ count' = count /\ B' = B
      /\ EntryInv(t, x)
  BY <1>0 DEF Multiply, MatrixInv, DataInv, Current
<1>2. /\ e \in EntriesOf(t) /\ j \in Rows /\ ~Passed(t, e)
      /\ j + 1 < n =>
            /\ Current(t)' = e /\ at'[t][3] = j + 1
            /\ \A y \in Entries : Passed(t, y)' <=> Passed(t, y)
      /\ ~(j + 1 < n) =>
            /\ at'[t][3] = 0
            /\ \A y \in Entries : Passed(t, y)' <=> Passed(t, y) \/ y = e
  <2>1. n \in {1, n}
    OBVIOUS
  <2> QED
    BY <1>0, <1>1, <2>1, PassedAdvances
<1>3. AddedTerms(t, e) = j
  BY <1>0, <1>1, <1>2 DEF AddedTerms
<1>4. AddedTerms(t, e)' = j + 1
  <2>1. CASE j + 1 < n
    <3>1. ~Passed(t, e)' /\ Current(t)' = e /\ at'[t][3] = j + 1
      BY <1>2, <2>1 DEF EntriesOf
    <3> QED
      BY <1>1, <3>1 DEF AddedTerms
  <2>2. CASE ~(j + 1 < n)
    <3>1. Passed(t, e)' /\ j + 1 = n
      BY <1>2, <2>2, OrderAssumption DEF EntriesOf, Rows
    <3> QED
      BY <1>1, <3>1 DEF AddedTerms
  <2> QED
    BY <2>1, <2>2
<1>5. CASE x # e
  <2>1. AddedTerms(t, x)' = AddedTerms(t, x)
    <3>1. x \in Entries
      BY DEF EntriesOf
    <3>2. AddedTerms(t, x) = IF Passed(t, x) THEN n ELSE 0
      BY <1>0, <1>1, <1>5 DEF AddedTerms
    <3>3. Passed(t, x)' <=> Passed(t, x)
      BY <1>2, <1>5, <3>1
    <3>4. CASE j + 1 < n
      <4>1. Current(t)' # x
        BY <1>2, <1>5, <3>4
      <4> QED
        BY <1>1, <3>2, <3>3, <4>1 DEF AddedTerms
    <3>5. CASE ~(j + 1 < n)
      <4>1. at'[t][3] = 0
        BY <1>2, <3>5
      <4> QED
        BY <1>1, <3>2, <3>3, <4>1 DEF AddedTerms
    <3> QED
      BY <3>4, <3>5
  <2>2. C'[x] = C[x]
    BY <1>1, <1>5 DEF DataInv, EntriesOf
  <2> QED
    BY <1>1, <2>1, <2>2, EntryKept
<1>6. CASE x = e
  <2> DEFINE c == count[t]
             M == Alone(c).B
             term == A[<<e[1], j>>] * M[<<j, e[2]>>]
  <2>1. c \in 0 .. ITERATIONS /\ B = M
    BY <1>1, Whole DEF MatrixInv, MatrixTypeOK
  <2>2. e \in Entries /\ M \in [Entries -> Int] /\ Alone(c).C[e] \in Int
    BY <1>2, <2>1, AloneTypes DEF EntriesOf
  <2>3. j \in 0 .. n
    BY <1>2, OrderAssumption DEF Rows
  <2>4. <<e[1], j>> \in Entries /\ <<j, e[2]>> \in Entries
    BY <1>2, <2>2 DEF Entries
  <2>5. term \in Int
    BY <2>2, <2>4, InitialTypes
  <2>6. C[e] = Alone(c).C[e] + PartialProduct(M, e, j)
    BY <1>1, <1>3, <1>6 DEF EntryInv
  <2>7. C'[e] = C[e] + term
    BY <1>1, <2>1, <2>2 DEF DataInv
  <2> HIDE DEF c, M
  <2>8. /\ PartialProduct(M, e, j) \in Int
        /\ PartialProduct(M, e, j + 1) = PartialProduct(M, e, j) + term
    BY <1>2, <2>2, <2>3, PartialProducts
  <2> HIDE DEF term
  <2>9. C'[e] = Alone(c).C[e] + PartialProduct(M, e, j + 1)
    BY <2>2, <2>5, <2>6, <2>7, <2>8
  <2> DEFINE k == AddedTerms(t, e)'
  <2>10. k = j + 1 /\ B'[e] = Alone(c).B[e] /\ count'[t] = c /\ pc'[t] # "update"
    BY <1>1, <1>4, <2>1 DEF c, M
  <2> HIDE DEF k
  <2>11. C'[e] = Alone(count'[t]).C[e] + PartialProduct(Alone(count'[t]).B, e, k)
    BY <2>9, <2>10 DEF M
  <2> QED
    BY <1>6, <2>10, <2>11
       DEF EntryInv, k, Alone, PartialProduct, Terms, A
<1> QED
  BY <1>5, <1>6

(* An entry of B is computed from one of C that is complete.               *)
LEMMA UpdateEntries ==
    ASSUME MatrixInv, DataInv, NEW t \in MatrixThreads, Update(t),
           NEW x \in EntriesOf(t)
    PROVE  EntryInv(t, x)'
<1>0. PICK e : e = Current(t)
  OBVIOUS
<1>1. /\ pc[t] = "update" /\ InSlice(t) /\ MatrixTypeOK
      /\ B' = [B EXCEPT ![e] = C[e] \div 13 + A[e]]
      /\ at' = [at EXCEPT ![t] = Advanced(at[t], 1)]
      /\ pc' = pc /\ count' = count /\ C' = C
      /\ EntryInv(t, x) /\ x \in Entries
  BY <1>0 DEF Update, MatrixInv, DataInv, Current, EntriesOf
<1>2. /\ e \in EntriesOf(t) /\ at[t][3] \in Rows
      /\ ~(at[t][3] + 1 < 1) =>
            \A y \in Entries : Passed(t, y)' <=> Passed(t, y) \/ y = e
  <2>1. 1 \in {1, n}
    OBVIOUS
  <2> QED
    BY <1>0, <1>1, <2>1, PassedAdvances
<1>3. Passed(t, x)' <=> Passed(t, x) \/ x = e
  BY <1>1, <1>2 DEF Rows
<1>4. AddedTerms(t, x)' = n /\ AddedTerms(t, x) = n
  BY <1>1 DEF AddedTerms
<1>5. CASE x # e
  <2>1. B'[x] = B[x]
    BY <1>1, <1>5 DEF DataInv
  <2>2. /\ count'[t] = count[t] /\ C'[x] = C[x]
        /\ AddedTerms(t, x)' = AddedTerms(t, x)
        /\ (pc[t] = "update" /\ Passed(t, x))' <=>
              (pc[t] = "update" /\ Passed(t, x))
    BY <1>1, <1>3, <1>4, <1>5
  <2> QED
    BY <1>1, <2>1, <2>2, EntryKept
<1>6. CASE x = e
  <2>1. C = Alone(count[t] + 1).C
    BY <1>1, Whole
  <2>2. count[t] \in 0 .. ITERATIONS - 1
    <3>1. count[t] \in Nat /\ count[t] < ITERATIONS
      BY <1>1, CountIsNat DEF MatrixInv, BarrierInv
    <3> QED
      BY <3>1, IterationsAssumption
  <2>3. B'[x] = C[x] \div 13 + A[x]
    BY <1>1, <1>6 DEF DataInv
  <2>4. Alone(count[t] + 1).B[x] = Alone(count[t] + 1).C[x] \div 13 + A[x]
    BY <1>1, <2>2, AloneIterates
  <2>5. B'[x] = Alone(count[t] + 1).B[x]
    BY <2>1, <2>3, <2>4
  <2>6. C[x] = Alone(count[t]).C[x] + PartialProduct(Alone(count[t]).B, x, n)
    BY <1>1, <1>4 DEF EntryInv
  <2> DEFINE k == AddedTerms(t, x)'
             c == count'[t]
             moved == (pc[t] = "update" /\ Passed(t, x))'
  <2>7. moved /\ c = count[t] /\ k = n /\ C' = C
    BY <1>1, <1>3, <1>4, <1>6
  <2> HIDE DEF k, c
  <2>8. /\ C'[x] = Alone(c).C[x] + PartialProduct(Alone(c).B, x, k)
        /\ B'[x] = Alone(c + 1).B[x]
    BY <2>5, <2>6, <2>7
  <2> QED
    BY <2>7, <2>8 DEF EntryInv, k, c, Alone, PartialProduct, Terms, A
<1> QED
  BY <1>5, <1>6

(* At the end of an iteration its matrices are those the next begins with. *)
LEMMA EndEntries ==
    ASSUME MatrixInv, DataInv, NEW t \in MatrixThreads, EndIteration(t),
           NEW x \in EntriesOf(t)
    PROVE  EntryInv(t, x)'
<1>1. /\ pc[t] = "update" /\ ~InSlice(t) /\ MatrixTypeOK
      /\ pc'[t] = IF count[t] + 1 < ITERATIONS THEN "top" ELSE "done"
      /\ count'[t] = count[t] + 1
      /\ B' = B /\ C' = C
      /\ EntryInv(t, x) /\ x \in Entries
  BY DEF EndIteration, Move, MatrixInv, MatrixTypeOK, DataInv, EntriesOf
<1>2. count[t] \in 0 .. ITERATIONS - 1
  <2>1. count[t] \in Nat /\ count[t] < ITERATIONS
    BY <1>1, CountIsNat DEF MatrixInv, BarrierInv
  <2> QED
    BY <2>1, IterationsAssumption
<1>3. Passed(t, x)
  BY <1>1, PassedAtEnds
<1>4. AddedTerms(t, x) = n /\ AddedTerms(t, x)' = 0
  BY <1>1 DEF AddedTerms
<1> DEFINE s == count[t] + 1
           c == count'[t]
           k == AddedTerms(t, x)'
<1>5. s \in 0 .. ITERATIONS
  BY <1>2, IterationsAssumption
<1>6. C[x] = Alone(s).C[x] /\ B[x] = Alone(s).B[x]
  BY <1>1, <1>2, <1>3, <1>4, AloneIterates DEF EntryInv
<1> HIDE DEF s
<1>7. PartialProduct(Alone(s).B, x, 0) = 0 /\ Alone(s).C[x] \in Int
  BY <1>1, <1>5, AloneTypes, PartialProducts
<1>8. c = s /\ k = 0
  BY <1>1, <1>4 DEF s
<1> HIDE DEF c, k
<1>9. /\ C'[x] = Alone(c).C[x] + PartialProduct(Alone(c).B, x, k)
      /\ B'[x] = Alone(c).B[x]
  BY <1>1, <1>6, <1>7, <1>8
<1>10. pc'[t] # "update"
  BY <1>1
<1> QED
  BY <1>9, <1>10 DEF EntryInv, k, c, Alone, PartialProduct, Terms, A

(* The invariant of the data holds at the start.                           *)
LEMMA DataInit == MatrixInit => DataInv
<1> SUFFICES ASSUME MatrixInit PROVE DataInv
  OBVIOUS
<1>1. /\ B = Alone(0).B /\ C = Alone(0).C /\ B = InitialB /\ C = InitialC
      /\ ~printed
      /\ \A t \in MatrixThreads : pc[t] = "top" /\ count[t] = 0
  BY SequentiallyIterates DEF MatrixInit, Alone
<1>2. B \in [Entries -> Int] /\ C \in [Entries -> Int]
  BY <1>1, InitialTypes
<1>3. ASSUME NEW t \in MatrixThreads, NEW x \in EntriesOf(t)
      PROVE  EntryInv(t, x)
  <2>1. x \in Entries
    BY DEF EntriesOf
  <2>2. PartialProduct(Alone(0).B, x, 0) = 0 /\ C[x] \in Int
    BY <1>1, <1>2, <2>1, PartialProducts
  <2>3. AddedTerms(t, x) = 0
    BY <1>1 DEF AddedTerms
  <2> QED
    BY <1>1, <2>2, <2>3 DEF EntryInv
<1> QED
  BY <1>1, <1>2, <1>3 DEF DataInv

(* Each step keeps the entries integers.                                   *)
LEMMA MatricesTyped ==
    ASSUME MatrixTypeOK, DataInv, NEW t \in MatrixThreads, matrixmult(t)
    PROVE  B' \in [Entries -> Int] /\ C' \in [Entries -> Int]
<1>1. B \in [Entries -> Int] /\ C \in [Entries -> Int] /\ A \in [Entries -> Int]
  BY InitialTypes DEF DataInv
<1>2. InSlice(t) => /\ <<at[t][1], at[t][2]>> \in Entries
                    /\ <<at[t][1], at[t][3]>> \in Entries
                    /\ <<at[t][3], at[t][2]>> \in Entries
  <2>1. at[t] \in (0 .. n) \X Rows \X Rows
    BY DEF MatrixTypeOK
  <2>2. InSlice(t) => at[t][1] \in Rows
    BY <2>1, SliceInMatrix, OrderAssumption DEF InSlice, Rows
  <2> QED
    BY <2>1, <2>2 DEF Entries
<1>3. CASE Multiply(t)
  <2> DEFINE x == <<at[t][1], at[t][2]>>
             term == A[<<at[t][1], at[t][3]>>] * B[<<at[t][3], at[t][2]>>]
  <2>1. /\ A[<<at[t][1], at[t][3]>>] \in Int
        /\ B[<<at[t][3], at[t][2]>>] \in Int /\ x \in Entries
    BY <1>1, <1>2, <1>3 DEF Multiply
  <2>2. term \in Int
    BY <2>1
  <2>3. C' = [C EXCEPT ![x] = C[x] + term] /\ B' = B
    BY <1>3 DEF Multiply
  <2> HIDE DEF x, term
  <2>4. C[x] + term \in Int
    BY <1>1, <2>1, <2>2
  <2> QED
    BY <1>1, <2>3, <2>4
<1>4. CASE Update(t)
  <2> DEFINE x == <<at[t][1], at[t][2]>>
             value == C[x] \div 13 + A[x]
  <2>1. x \in Entries /\ C' = C /\ B' = [B EXCEPT ![x] = value]
    BY <1>2, <1>4 DEF Update
  <2>2. value \in Int
    BY <1>1, <2>1
  <2> HIDE DEF x, value
  <2> QED
    BY <1>1, <2>1, <2>2
<1>5. CASE ~Multiply(t) /\ ~Update(t)
  BY <1>1, <1>5 DEF matrixmult, FirstWait, BeginMultiply, SecondWait,
                    BeginUpdate, EndIteration
<1> QED
  BY <1>3, <1>4, <1>5

(* Each step keeps the invariant of the data.                              *)
LEMMA DataStep ==
    ASSUME MatrixInv, DataInv, [MatrixNext]_matrixVars
    PROVE  DataInv'
<1>1. ASSUME UNCHANGED <<pc, count, at, B, C>>,
             printed' => \A t \in MatrixThreads : pc[t] = "done"
      PROVE  DataInv'
  <2>1. ASSUME NEW t \in MatrixThreads, NEW x \in EntriesOf(t)
        PROVE  EntryInv(t, x)'
    <3>1. AddedTerms(t, x)' = AddedTerms(t, x) /\ (Passed(t, x)' <=> Passed(t, x))
      BY <1>1 DEF AddedTerms, Passed, Current
    <3> QED
      BY <1>1, <3>1, EntryKept DEF DataInv
  <2>2. \A t \in MatrixThreads : \A x \in EntriesOf(t)' : EntryInv(t, x)'
    BY <2>1 DEF EntriesOf
  <2> QED
    BY <1>1, <2>2 DEF DataInv
<1>2. CASE threadedmult
  <2>1. UNCHANGED <<pc, count, at, B, C>>
    BY <1>2 DEF threadedmult, Spawn, JoinAndPrint
  <2>2. printed' => \A t \in MatrixThreads : pc[t] = "done"
    BY <1>2 DEF threadedmult, Spawn, JoinAndPrint, DataInv
  <2> QED
    BY <1>1, <2>1, <2>2
<1>3. ASSUME NEW t \in MatrixThreads, matrixmult(t) PROVE DataInv'
  <2>1. B' \in [Entries -> Int] /\ C' \in [Entries -> Int]
    BY <1>3, MatricesTyped DEF MatrixInv
  <2>2. ASSUME NEW x \in EntriesOf(t) PROVE EntryInv(t, x)'
    <3>1. CASE FirstWait(t) \/ BeginMultiply(t) \/ SecondWait(t) \/ BeginUpdate(t)
      BY <3>1, OwnEntriesKept DEF MatrixInv
    <3>2. CASE Multiply(t)
      BY <3>2, MultiplyEntries
    <3>3. CASE Update(t)
      BY <3>3, UpdateEntries
    <3>4. CASE EndIteration(t)
      BY <3>4, EndEntries
    <3> QED
      BY <1>3, <3>1, <3>2, <3>3, <3>4 DEF matrixmult
  <2>3. ASSUME NEW u \in MatrixThreads, NEW x \in EntriesOf(u)
        PROVE  EntryInv(u, x)'
    BY <1>3, <2>2, OthersEntries DEF MatrixInv
  <2>4. \A u \in MatrixThreads : \A x \in EntriesOf(u)' : EntryInv(u, x)'
    BY <2>3 DEF EntriesOf
  <2>5. /\ pc[t] # "done" /\ printed' = printed
        /\ \A u \in MatrixThreads \ {t} : pc'[u] = pc[u] /\ count'[u] = count[u]
        /\ pc'[t] = "done" => EndIteration(t)
    <3>1. /\ pc \in [MatrixThreads -> {"top", "first barrier", "multiply",
                                       "second barrier", "update", "done"}]
          /\ DOMAIN count = MatrixThreads
      BY DEF MatrixInv, MatrixTypeOK
    <3>2. CASE FirstWait(t) \/ SecondWait(t)
      BY <3>1, <3>2 DEF FirstWait, SecondWait, Move
    <3>3. CASE BeginMultiply(t) \/ BeginUpdate(t)
      BY <3>1, <3>3 DEF BeginMultiply, BeginUpdate, Move
    <3>4. CASE Multiply(t) \/ Update(t)
      BY <3>1, <3>4 DEF Multiply, Update
    <3>5. CASE EndIteration(t)
      BY <3>1, <3>5 DEF EndIteration, Move
    <3> QED
      BY <1>3, <3>2, <3>3, <3>4, <3>5 DEF matrixmult
  <2>6. ASSUME pc'[t] = "done" PROVE count'[t] = ITERATIONS
    <3>1. /\ EndIteration(t) /\ pc[t] = "update"
          /\ ~(count[t] + 1 < ITERATIONS) /\ count'[t] = count[t] + 1
      BY <2>5, <2>6 DEF EndIteration, Move, MatrixInv, MatrixTypeOK
    <3>2. count[t] \in Nat /\ count[t] < ITERATIONS
      BY <3>1, CountIsNat DEF MatrixInv, BarrierInv
    <3> QED
      BY <3>1, <3>2, IterationsAssumption
  <2>7. ~printed
    BY <2>5 DEF DataInv
  <2> QED
    BY <2>1, <2>4, <2>5, <2>6, <2>7 DEF DataInv
<1>4. CASE UNCHANGED matrixVars
  BY <1>1, <1>4 DEF matrixVars, DataInv
<1> QED
  BY <1>2, <1>3, <1>4 DEF MatrixNext

(* Each iteration works on the complete result of the one before, and what *)
(* is printed is what one thread alone would compute, for any number of    *)
(* threads, rows and iterations and every order of their steps.            *)
THEOREM MatricesInStepHolds == MatrixSpec => []MatricesInStep
<1>1. MatrixInv /\ DataInv => MatricesInStep
  BY Whole, ThreadsAssumption DEF MatricesInStep, Alone, MatrixThreads
<1>2. MatrixInv /\ DataInv /\ [MatrixNext]_matrixVars => DataInv'
  BY DataStep
<1> QED
  BY <1>1, <1>2, DataInit, MatrixInitial, MatrixStep, PTL DEF MatrixSpec

-----------------------------------------------------------------------------
(* The programs come to their end.                                        *)

(* The steps of the program that are still to come, and what can run.      *)
SumStepsDone(t) ==
    4 * added[t] + (IF sum_pc[t] = "lock" THEN 0
                    ELSE IF sum_pc[t] = "load" THEN 1
                    ELSE IF sum_pc[t] = "store" THEN 2 ELSE 3)
SumLeft == [t \in SumThreads |-> 4 * Slice - SumStepsDone(t)]
SumStepsLeft ==
    (THREAD_COUNT - started) + (IF joined THEN 0 ELSE 1)
        + SumFunctionOnSet(SumLeft, SumThreads)

SumCanMove ==
    \/ started < THREAD_COUNT
    \/ \A t \in SumThreads : sum_pc[t] = "lock" /\ added[t] = Slice
    \/ \E t \in SumThreads : \/ sum_pc[t] # "lock"
                             \/ added[t] < Slice /\ Free(mutex)

(* The threads can be counted.                                             *)
LEMMA SumThreadsFinite == IsFiniteSet(SumThreads)
BY SummersAssumption, FS_Interval DEF SumThreads

(* No thread has made more steps than it has to make.                      *)
LEMMA SumLeftType ==
    ASSUME SumInv
    PROVE  /\ \A t \in SumThreads : SumLeft[t] \in Nat
           /\ SumFunctionOnSet(SumLeft, SumThreads) \in Nat
<1>1. \A t \in SumThreads : SumLeft[t] \in Nat
  <2> SUFFICES ASSUME NEW t \in SumThreads
               PROVE  4 * Slice - SumStepsDone(t) \in Nat
    BY DEF SumLeft
  <2>1. /\ added[t] \in 0 .. Slice /\ (sum_pc[t] # "lock" => added[t] < Slice)
        /\ sum_pc[t] \in {"lock", "load", "store", "unlock"}
    BY DEF SumInv, SumTypeOK, MutexInv
  <2>2. SumStepsDone(t) \in Nat /\ SumStepsDone(t) <= 4 * Slice
    BY <2>1, SliceFits DEF SumStepsDone
  <2> QED
    BY <2>2, SliceFits
<1> QED
  BY <1>1, SumThreadsFinite, SumIsNatural

(* Whoever holds the mutex can go on.                                      *)
LEMMA SumMoves == SumInv => SumCanMove
<1> SUFFICES ASSUME SumInv, ~SumCanMove PROVE FALSE
  OBVIOUS
<1>1. PICK t \in SumThreads : ~(sum_pc[t] = "lock" /\ added[t] = Slice)
  BY DEF SumCanMove
<1>2. sum_pc[t] = "lock" /\ ~Free(mutex)
  <2>1. added[t] \in 0 .. Slice
    BY DEF SumInv, SumTypeOK
  <2> QED
    BY <1>1, <2>1, SliceFits DEF SumCanMove
<1>3. PICK u : u \in mutex
  BY <1>2 DEF Free
<1>4. u \in SumThreads
  BY <1>3 DEF SumInv, SumTypeOK
<1> QED
  BY <1>3, <1>4 DEF SumCanMove, SumInv, MutexInv

(* A step of a thread is one less for it and none for the others.          *)
LEMMA SumShortens ==
    ASSUME SumInv, SumNext
    PROVE  SumStepsLeft' < SumStepsLeft
<1>1. /\ \A t \in SumThreads : SumLeft[t] \in Nat
      /\ SumFunctionOnSet(SumLeft, SumThreads) \in Nat
      /\ started \in Int
  BY SumLeftType, SummersAssumption DEF SumInv, SumTypeOK
<1>2. CASE main_func
  <2>1. SumLeft' = SumLeft
    BY <1>2 DEF main_func, StartThread, JoinSum, SumLeft, SumStepsDone
  <2>2. SumFunctionOnSet(SumLeft, SumThreads)' =
           SumFunctionOnSet(SumLeft, SumThreads)
    BY <2>1
  <2> QED
    BY <1>1, <1>2, <2>2, SummersAssumption
       DEF main_func, StartThread, JoinSum, SumStepsLeft
<1>3. ASSUME NEW t \in SumThreads, AddSlice(t)
      PROVE  SumStepsLeft' < SumStepsLeft
  <2>1. /\ started' = started /\ joined' = joined
        /\ \A u \in SumThreads \ {t} : sum_pc'[u] = sum_pc[u] /\ added'[u] = added[u]
    <3>1. DOMAIN sum_pc = SumThreads /\ DOMAIN added = SumThreads
      BY DEF SumInv, SumTypeOK
    <3> QED
      BY <1>3, <3>1 DEF AddSlice, Lock, LoadSum, StoreSum, Unlock
  <2>2. SumStepsDone(t)' = SumStepsDone(t) + 1 /\ SumStepsDone(t) \in Int
    <3>1. /\ DOMAIN sum_pc = SumThreads /\ DOMAIN added = SumThreads
          /\ added[t] \in Nat
      BY SliceFits DEF SumInv, SumTypeOK
    <3>2. CASE Lock(t) \/ LoadSum(t) \/ StoreSum(t)
      BY <3>1, <3>2 DEF Lock, LoadSum, StoreSum, SumStepsDone
    <3>3. CASE Unlock(t)
      BY <3>1, <3>3 DEF Unlock, SumStepsDone
    <3> QED
      BY <1>3, <3>2, <3>3 DEF AddSlice
  <2> DEFINE f == SumLeft
             g == SumLeft'
  <2>3. /\ g[t] \in Int /\ g[t] < f[t]
        /\ \A u \in SumThreads \ {t} : g[u] = f[u]
    <3>1. /\ f[t] = 4 * Slice - SumStepsDone(t)
          /\ g[t] = 4 * Slice - SumStepsDone(t)'
      BY DEF SumLeft, Slice
    <3>2. \A u \in SumThreads \ {t} : SumStepsDone(u)' = SumStepsDone(u)
      BY <2>1 DEF SumStepsDone
    <3>3. g[t] \in Int /\ g[t] < f[t]
      BY <2>2, <3>1, SliceFits
    <3>4. \A u \in SumThreads \ {t} : g[u] = f[u]
      BY <3>2 DEF SumLeft, Slice
    <3> QED
      BY <3>3, <3>4
  <2>4. SumFunctionOnSet(SumLeft, SumThreads) = SumFunctionOnSet(f, SumThreads)
        /\ SumFunctionOnSet(SumLeft, SumThreads)' = SumFunctionOnSet(g, SumThreads)
    BY DEF SumThreads
  <2>5. \A u \in SumThreads : f[u] \in Nat
    BY <1>1
  <2> HIDE DEF f, g
  <2>6. SumFunctionOnSet(g, SumThreads) < SumFunctionOnSet(f, SumThreads)
        /\ SumFunctionOnSet(g, SumThreads) \in Int
    <3>1. \A u \in SumThreads : g[u] \in Int
      BY <2>3, <2>5
    <3> QED
      BY <2>3, <2>5, <3>1, SumThreadsFinite, SumFalls, SumType
  <2> QED
    BY <1>1, <2>1, <2>4, <2>6, SummersAssumption DEF SumStepsLeft
<1> QED
  BY <1>2, <1>3 DEF SumNext

(* The program cannot stop before it is through, nor go on for ever: while *)
(* it is not joined main_func or a thread can move, and every step leaves  *)
(* fewer steps to come.                                                    *)
THEOREM SumComesToItsEnd ==
    SumSpec => /\ [](SumStepsLeft \in Nat /\ SumCanMove)
               /\ [][SumStepsLeft' < SumStepsLeft]_sumVars
<1>1. SumInv => SumStepsLeft \in Nat /\ SumCanMove
  <2> SUFFICES ASSUME SumInv PROVE SumStepsLeft \in Nat
    BY SumMoves
  <2>1. started \in 0 .. THREAD_COUNT
    BY DEF SumInv, SumTypeOK
  <2> QED
    BY <2>1, SumLeftType, SummersAssumption DEF SumStepsLeft
<1>2. SumInv /\ [SumNext]_sumVars => [SumStepsLeft' < SumStepsLeft]_sumVars
  BY SumShortens
<1> QED
  BY <1>1, <1>2, SumInitial, SumStep, PTL DEF SumSpec

(* The steps that a thread of the demo has made, what is still to come, and *)
(* what can run.                                                            *)
MTStepsDone(t) ==
    IF mt_pc[t] = "exited" THEN 4 * INCREMENTS + 2
    ELSE IF mt_pc[t] = "barrier" THEN 4 * INCREMENTS + 1
    ELSE 4 * num[t] + (IF mt_pc[t] = "loop" THEN 0
                       ELSE IF mt_pc[t] = "read" THEN 1
                       ELSE IF mt_pc[t] = "write" THEN 2 ELSE 3)
MTLeft == [t \in Workers |-> 4 * INCREMENTS + 2 - MTStepsDone(t)]
MTStepsLeft ==
    (THREAD_AMOUNT - created) + (IF Running THEN 1 ELSE 0)
        + SumFunctionOnSet(MTLeft, Workers)

MTCanMove ==
    \/ created < THREAD_AMOUNT
    \/ \A t \in Workers : mt_pc[t] = "exited"
    \/ \E t \in Workers :
          \/ mt_pc[t] \in Inside
          \/ mt_pc[t] = "loop" /\ num[t] = INCREMENTS
          \/ mt_pc[t] = "loop" /\ (PTHREAD_SYNC => Free(mutexSum))
          \/ mt_pc[t] = "barrier" /\ Released(myBarrier, t)

(* A thread blocked in the barrier waits for one that is yet to arrive;    *)
(* one that holds the mutex is inside its addition.                        *)
WaitInv ==
    /\ SeenInv /\ ThreadsInv
    /\ created \in 0 .. THREAD_AMOUNT
    /\ (\A t \in Workers : mt_pc[t] \in Arrivals) => myBarrier = {}
    /\ ~PTHREAD_SYNC => myBarrier = {} /\ mutexSum = {}
    /\ mutexSum \subseteq {t \in Workers : mt_pc[t] \in Inside}

(* It holds at the start.                                                  *)
LEMMA WaitInit == MTInit => WaitInv
<1> SUFFICES ASSUME MTInit PROVE WaitInv
  OBVIOUS
<1>1. created = 0 /\ myBarrier = {} /\ mutexSum = {}
  BY DEF MTInit
<1> QED
  BY <1>1, SeenInit, ThreadsInit, AmountAssumption DEF WaitInv

(* Each step keeps it.                                                     *)
LEMMA WaitStep ==
    ASSUME WaitInv, [MTNext]_mtVars
    PROVE  WaitInv'
<1>1. SeenInv' /\ ThreadsInv'
  BY SeenNext, ThreadsStep DEF WaitInv
<1>2. CASE UNCHANGED mtVars
  BY <1>1, <1>2 DEF mtVars, WaitInv
<1>3. CASE MTMain
  <2>1. UNCHANGED <<PTHREAD_SYNC, mt_pc, myBarrier, mutexSum>>
    BY <1>3 DEF MTMain, CreateThread, CreateFails, JoinAll
  <2>2. created' \in 0 .. THREAD_AMOUNT
    BY <1>3, AmountAssumption
       DEF MTMain, CreateThread, CreateFails, JoinAll, WaitInv
  <2> QED
    BY <1>1, <2>1, <2>2 DEF WaitInv
<1>4. ASSUME NEW t \in Workers, simpleThread(t) PROVE WaitInv'
  <2>1. created' \in 0 .. THREAD_AMOUNT
    BY <1>4 DEF WaitInv, simpleThread, LockSum, ReadShared, WriteShared,
                UnlockSum, ArriveBarrier, SeeFinal
  <2>2. DOMAIN mt_pc = Workers /\ DOMAIN mt_pc' = Workers
    BY <1>1 DEF WaitInv, SeenInv
  <2>3. mutexSum' \subseteq {u \in Workers : mt_pc'[u] \in Inside}
    <3>1. CASE LockSum(t)
      <4>1. mutexSum' \subseteq mutexSum \union {t}
            /\ mt_pc' = [mt_pc EXCEPT ![t] = "read"]
        BY <3>1 DEF LockSum, Goes, Free
      <4>2. mt_pc'[t] \in Inside
        BY <2>2, <4>1 DEF Inside
      <4>3. \A u \in Workers : u # t => mt_pc'[u] = mt_pc[u]
        BY <2>2, <4>1
      <4>4. \A u \in mutexSum : u \in Workers /\ mt_pc[u] \in Inside
        BY DEF WaitInv
      <4> SUFFICES ASSUME NEW u \in mutexSum'
                   PROVE  u \in Workers /\ mt_pc'[u] \in Inside
        OBVIOUS
      <4> QED
        BY <4>1, <4>2, <4>3, <4>4
    <3>2. CASE ReadShared(t) \/ WriteShared(t)
      <4>1. /\ mutexSum' = mutexSum
            /\ \/ mt_pc' = [mt_pc EXCEPT ![t] = "write"]
               \/ mt_pc' = [mt_pc EXCEPT ![t] = "unlock"]
        BY <3>2 DEF ReadShared, WriteShared, Goes
      <4> QED
        BY <2>2, <4>1 DEF WaitInv, Inside
    <3>3. CASE UnlockSum(t)
      <4>1. /\ mutexSum' = IF PTHREAD_SYNC THEN {} ELSE mutexSum
            /\ mt_pc[t] = "unlock" /\ mt_pc' = [mt_pc EXCEPT ![t] = "loop"]
        BY <3>3 DEF UnlockSum, Goes
      <4>2. mutexSum' = {}
        BY <4>1 DEF WaitInv
      <4> QED
        BY <4>2
    <3>4. CASE ArriveBarrier(t) \/ SeeFinal(t)
      <4>1. /\ mutexSum' = mutexSum /\ mt_pc[t] \notin Inside
            /\ \/ mt_pc' = [mt_pc EXCEPT ![t] = "barrier"]
               \/ mt_pc' = [mt_pc EXCEPT ![t] = "exited"]
        BY <3>4 DEF ArriveBarrier, SeeFinal, Goes, Inside
      <4> QED
        BY <2>2, <4>1 DEF WaitInv
    <3> QED
      BY <1>4, <3>1, <3>2, <3>3, <3>4 DEF simpleThread
  <2>4. ASSUME \A u \in Workers : mt_pc'[u] \in Arrivals
        PROVE  myBarrier' = {}
    <3>1. CASE ArriveBarrier(t)
      <4>1. /\ mt_pc[t] = "loop" /\ mt_pc' = [mt_pc EXCEPT ![t] = "barrier"]
            /\ myBarrier' = IF PTHREAD_SYNC THEN Arrived(myBarrier, t, Workers)
                                            ELSE myBarrier
        BY <3>1 DEF ArriveBarrier, Goes
      <4>2. \A u \in Workers \ {t} : mt_pc[u] \in Arrivals
        BY <2>2, <2>4, <4>1
      <4>3. PTHREAD_SYNC => \A u \in Workers \ {t} : u \in myBarrier
        BY <4>1, <4>2 DEF WaitInv, SeenInv, Arrivals
      <4>4. myBarrier \subseteq Workers
        BY DEF WaitInv, SeenInv
      <4>5. CASE PTHREAD_SYNC
        <5>1. myBarrier \union {t} = Workers
          BY <4>3, <4>4, <4>5
        <5> QED
          BY <4>1, <4>5, <5>1 DEF Arrived
      <4>6. CASE ~PTHREAD_SYNC
        BY <4>1, <4>6 DEF WaitInv
      <4> QED
        BY <4>5, <4>6
    <3>2. CASE SeeFinal(t)
      <4>1. /\ mt_pc[t] = "barrier" /\ mt_pc' = [mt_pc EXCEPT ![t] = "exited"]
            /\ myBarrier' = myBarrier
        BY <3>2 DEF SeeFinal, Goes
      <4>2. \A u \in Workers : mt_pc[u] \in Arrivals
        BY <2>2, <2>4, <4>1 DEF Arrivals
      <4> QED
        BY <4>1, <4>2 DEF WaitInv
    <3>3. CASE LockSum(t) \/ ReadShared(t) \/ WriteShared(t) \/ UnlockSum(t)
      <4>1. mt_pc'[t] \in {"read", "write", "unlock", "loop"}
        BY <2>2, <3>3 DEF LockSum, ReadShared, WriteShared, UnlockSum, Goes
      <4> QED
        BY <2>4, <4>1 DEF Arrivals
    <3> QED
      BY <1>4, <3>1, <3>2, <3>3 DEF simpleThread
  <2>5. ~PTHREAD_SYNC' => myBarrier' = {} /\ mutexSum' = {}
    BY <1>4 DEF WaitInv, simpleThread, LockSum, ReadShared, WriteShared,
                UnlockSum, ArriveBarrier, SeeFinal
  <2> QED
    BY <1>1, <2>1, <2>3, <2>4, <2>5 DEF WaitInv
<1> QED
  BY <1>2, <1>3, <1>4 DEF MTNext
LEMMA WorkersFinite == IsFiniteSet(Workers)
BY AmountAssumption, FS_Interval DEF Workers

(* No thread has made more steps than it has to make.                      *)
LEMMA MTLeftType ==
    ASSUME WaitInv
    PROVE  /\ \A t \in Workers : MTLeft[t] \in Nat
           /\ SumFunctionOnSet(MTLeft, Workers) \in Nat
<1>1. \A t \in Workers : MTLeft[t] \in Nat
  <2> SUFFICES ASSUME NEW t \in Workers
               PROVE  4 * INCREMENTS + 2 - MTStepsDone(t) \in Nat
    BY DEF MTLeft
  <2>1. /\ num[t] \in 0 .. INCREMENTS
        /\ mt_pc[t] \in {"loop", "read", "write", "unlock", "barrier", "exited"}
        /\ mt_pc[t] \in {"read", "write", "unlock"} => num[t] < INCREMENTS
    BY DEF WaitInv, ThreadsInv, Inside
  <2>2. /\ MTStepsDone(t) \in Nat
        /\ MTStepsDone(t) <= 4 * INCREMENTS + 2
    BY <2>1, IncrementsAssumption DEF MTStepsDone
  <2> QED
    BY <2>2, IncrementsAssumption
<1> QED
  BY <1>1, WorkersFinite, SumIsNatural

(* When nobody else can move the barrier has released everyone.            *)
LEMMA MTMoves == WaitInv => MTCanMove
<1> SUFFICES ASSUME WaitInv, ~MTCanMove PROVE FALSE
  OBVIOUS
<1>1. ASSUME NEW t \in Workers
      PROVE  mt_pc[t] \in Arrivals
  <2>1. /\ num[t] \in 0 .. INCREMENTS
        /\ mt_pc[t] \in {"loop", "read", "write", "unlock", "barrier", "exited"}
    BY DEF WaitInv, ThreadsInv
  <2>2. mt_pc[t] \notin {"read", "write", "unlock"}
    BY DEF MTCanMove, Inside
  <2>3. ASSUME mt_pc[t] = "loop" PROVE FALSE
    <3>1. num[t] # INCREMENTS /\ ~Free(mutexSum)
      BY <2>3 DEF MTCanMove
    <3>2. PICK u : u \in mutexSum
      BY <3>1 DEF Free
    <3>3. u \in Workers /\ mt_pc[u] \in Inside
      BY <3>2 DEF WaitInv
    <3> QED
      BY <3>3 DEF MTCanMove
  <2> QED
    BY <2>1, <2>2, <2>3 DEF Arrivals
<1>2. myBarrier = {}
  BY <1>1 DEF WaitInv
<1>3. PICK t \in Workers : mt_pc[t] # "exited"
  BY DEF MTCanMove
<1>4. mt_pc[t] = "barrier"
  BY <1>1, <1>3 DEF Arrivals
<1> QED
  BY <1>2, <1>4 DEF MTCanMove, Released
(* A step of a thread is one less for it and none for the others.          *)
LEMMA MTShortens ==
    ASSUME WaitInv, MTNext
    PROVE  MTStepsLeft' < MTStepsLeft
<1>1. /\ \A t \in Workers : MTLeft[t] \in Nat
      /\ SumFunctionOnSet(MTLeft, Workers) \in Nat
      /\ created \in 0 .. THREAD_AMOUNT
  BY MTLeftType DEF WaitInv
<1>2. CASE MTMain
  <2>1. MTLeft' = MTLeft
    BY <1>2 DEF MTMain, CreateThread, CreateFails, JoinAll, MTLeft, MTStepsDone
  <2>2. SumFunctionOnSet(MTLeft, Workers)' = SumFunctionOnSet(MTLeft, Workers)
    BY <2>1
  <2>3. \/ created' = created + 1 /\ Running' = Running
        \/ created' = created /\ Running /\ ~Running'
    BY <1>2 DEF MTMain, CreateThread, CreateFails, JoinAll, Running
  <2> QED
    BY <1>1, <2>2, <2>3, AmountAssumption DEF MTStepsLeft
<1>3. ASSUME NEW t \in Workers, simpleThread(t)
      PROVE  MTStepsLeft' < MTStepsLeft
  <2>1. DOMAIN mt_pc = Workers /\ DOMAIN num = Workers
    BY DEF WaitInv, ThreadsInv
  <2>2. /\ created' = created /\ Running' = Running
        /\ \A u \in Workers \ {t} : mt_pc'[u] = mt_pc[u] /\ num'[u] = num[u]
    BY <1>3, <2>1 DEF simpleThread, LockSum, ReadShared, WriteShared, UnlockSum,
                      ArriveBarrier, SeeFinal, Goes, Running
  <2>3. MTStepsDone(t)' = MTStepsDone(t) + 1 /\ MTStepsDone(t) \in Int
    <3>1. num[t] \in Nat
      BY DEF WaitInv, ThreadsInv
    <3>2. CASE LockSum(t) \/ ReadShared(t) \/ WriteShared(t)
      BY <2>1, <3>1, <3>2
         DEF LockSum, ReadShared, WriteShared, Goes, MTStepsDone
    <3>3. CASE UnlockSum(t)
      BY <2>1, <3>1, <3>3 DEF UnlockSum, Goes, MTStepsDone
    <3>4. CASE ArriveBarrier(t) \/ SeeFinal(t)
      BY <2>1, <3>1, <3>4, IncrementsAssumption
         DEF ArriveBarrier, SeeFinal, Goes, MTStepsDone
    <3> QED
      BY <1>3, <3>2, <3>3, <3>4 DEF simpleThread
  <2> DEFINE f == MTLeft
             g == MTLeft'
  <2>4. /\ g[t] \in Int /\ g[t] < f[t]
        /\ \A u \in Workers \ {t} : g[u] = f[u]
    <3>1. /\ f[t] = 4 * INCREMENTS + 2 - MTStepsDone(t)
          /\ g[t] = 4 * INCREMENTS + 2 - MTStepsDone(t)'
      BY DEF MTLeft
    <3>2. \A u \in Workers \ {t} : MTStepsDone(u)' = MTStepsDone(u)
      BY <2>2 DEF MTStepsDone
    <3>3. g[t] \in Int /\ g[t] < f[t]
      BY <2>3, <3>1, IncrementsAssumption
    <3>4. \A u \in Workers \ {t} : g[u] = f[u]
      BY <3>2 DEF MTLeft
    <3> QED
      BY <3>3, <3>4
  <2>5. SumFunctionOnSet(MTLeft, Workers) = SumFunctionOnSet(f, Workers)
        /\ SumFunctionOnSet(MTLeft, Workers)' = SumFunctionOnSet(g, Workers)
    BY DEF Workers
  <2>6. \A u \in Workers : f[u] \in Nat
    BY <1>1
  <2> HIDE DEF f, g
  <2>7. SumFunctionOnSet(g, Workers) < SumFunctionOnSet(f, Workers)
        /\ SumFunctionOnSet(g, Workers) \in Int
    <3>1. \A u \in Workers : g[u] \in Int
      BY <2>4, <2>6
    <3> QED
      BY <2>4, <2>6, <3>1, WorkersFinite, SumFalls, SumType
  <2> QED
    BY <1>1, <2>2, <2>5, <2>7, AmountAssumption DEF MTStepsLeft
<1> QED
  BY <1>2, <1>3 DEF MTNext

(* The demo too: while the process runs main or a thread can move, whether *)
(* it is built with synchronization or not, and every step leaves fewer    *)
(* steps to come.                                                          *)
THEOREM MultithreadComesToItsEnd ==
    MTSpec => /\ [](MTStepsLeft \in Nat /\ MTCanMove)
              /\ [][MTStepsLeft' < MTStepsLeft]_mtVars
<1>1. WaitInv => MTStepsLeft \in Nat /\ MTCanMove
  <2> SUFFICES ASSUME WaitInv PROVE MTStepsLeft \in Nat
    BY MTMoves
  <2>1. created \in 0 .. THREAD_AMOUNT
    BY DEF WaitInv
  <2> QED
    BY <2>1, MTLeftType, AmountAssumption DEF MTStepsLeft
<1>2. WaitInv /\ [MTNext]_mtVars => [MTStepsLeft' < MTStepsLeft]_mtVars
  BY MTShortens
<1> QED
  BY <1>1, <1>2, WaitInit, WaitStep, PTL DEF MTSpec

(* The turns of a thread's loops at most, and those it has behind it.      *)
Turns == (n + 1) * (n * n)
Position(t) == (at[t][1] * n + at[t][2]) * n + at[t][3]
Stage(t) ==
    IF pc[t] \in {"top", "done"} THEN 0
    ELSE IF pc[t] = "first barrier" THEN 1
    ELSE IF pc[t] = "multiply" THEN 2
    ELSE IF pc[t] = "second barrier" THEN 3 ELSE 4

(* How far a thread has come, what is still to come at most, and what can  *)
(* run.                                                                    *)
Come(t) ==
    (5 * count[t] + Stage(t)) * Turns
        + (IF pc[t] \in {"multiply", "update"} THEN Position(t) ELSE 0)
MatrixLeft == [t \in MatrixThreads |-> (5 * ITERATIONS) * Turns - Come(t)]
MatrixStepsLeft ==
    (NUM_CORES - spawned) + (IF printed THEN 0 ELSE 1)
        + SumFunctionOnSet(MatrixLeft, MatrixThreads)

MatrixCanMove ==
    \/ spawned < NUM_CORES
    \/ \A t \in MatrixThreads : pc[t] = "done"
    \/ \E t \in MatrixThreads :
          \/ pc[t] \in {"top", "multiply", "update"}
          \/ /\ pc[t] \in {"first barrier", "second barrier"}
             /\ Released(barrier, t)

(* The threads can be counted.                                             *)
LEMMA MatrixThreadsFinite == IsFiniteSet(MatrixThreads)
BY ThreadsAssumption, FS_Interval DEF MatrixThreads

(* So can their turns.                                                     *)
LEMMA TurnsIsNatural == Turns \in Nat
BY OrderAssumption, SMT DEF Turns

(* A loop has made fewer turns than there are.                             *)
LEMMA PositionFits ==
    ASSUME MatrixTypeOK, NEW t \in MatrixThreads
    PROVE  Position(t) \in Nat /\ Position(t) < Turns
<1>1. PICK i \in 0 .. n, k \in Rows, l \in Rows : at[t] = <<i, k, l>>
  <2>1. at[t] \in (0 .. n) \X Rows \X Rows
    BY DEF MatrixTypeOK
  <2> QED
    BY <2>1
<1> DEFINE q == i * n + k
           s == n * n
<1>2. n \in Nat /\ n > 0 /\ i \in Nat /\ i <= n /\ k \in Nat /\ k < n
      /\ l \in Nat /\ l < n
  BY OrderAssumption DEF Rows
<1>3. q \in Nat /\ q + 1 <= (n + 1) * n
  <2>1. i * n <= n * n /\ i * n \in Nat /\ (n + 1) * n = n * n + n
    BY <1>2, SMT
  <2> QED
    BY <1>2, <2>1
<1>4. Position(t) = q * n + l
  BY <1>1 DEF Position
<1>5. Turns = ((n + 1) * n) * n
  BY <1>2, SMT DEF Turns
<1> DEFINE w == (n + 1) * n
<1>6. w \in Nat
  BY <1>2, SMT
<1> HIDE DEF q, w
<1>7. (q + 1) * n <= w * n /\ (q + 1) * n = q * n + n /\ q * n \in Nat
      /\ w * n \in Nat
  BY <1>2, <1>3, <1>6, SMT DEF w
<1>8. Turns = w * n
  BY <1>5 DEF w
<1> QED
  BY <1>2, <1>4, <1>7, <1>8

(* Each turn takes the loop counters on.                                   *)
LEMMA PositionAdvances ==
    ASSUME MatrixTypeOK, NEW t \in MatrixThreads,
           NEW terms \in {1, n},
           at' = [at EXCEPT ![t] = Advanced(at[t], terms)]
    PROVE  Position(t)' > Position(t) /\ Position(t)' \in Int
<1>1. PICK i \in 0 .. n, k \in Rows, l \in Rows : at[t] = <<i, k, l>>
  <2>1. at[t] \in (0 .. n) \X Rows \X Rows
    BY DEF MatrixTypeOK
  <2> QED
    BY <2>1
<1>2. n \in Nat /\ n > 0 /\ i \in Nat /\ k \in Nat /\ k < n
      /\ l \in Nat /\ l < n
  BY OrderAssumption DEF Rows
<1>3. at'[t] = Advanced(<<i, k, l>>, terms)
  BY <1>1 DEF MatrixTypeOK
<1> DEFINE q == i * n + k
<1>4. q \in Nat
  BY <1>2, SMT
<1>5. Position(t) = q * n + l
  BY <1>1 DEF Position
<1>6. CASE l + 1 < terms
  <2>1. at'[t] = <<i, k, l + 1>>
    BY <1>3, <1>6 DEF Advanced
  <2>2. Position(t)' = q * n + (l + 1)
    BY <2>1 DEF Position
  <2> HIDE DEF q
  <2>3. q * n \in Nat
    BY <1>2, <1>4, SMT
  <2> QED
    BY <1>2, <1>5, <2>2, <2>3
<1>7. CASE ~(l + 1 < terms)
  <2>1. Position(t)' = (q + 1) * n
    <3>1. CASE k + 1 < n
      <4>1. at'[t] = <<i, k + 1, 0>>
        BY <1>3, <1>7, <3>1 DEF Advanced
      <4>2. Position(t)' = (i * n + (k + 1)) * n + 0
        BY <4>1 DEF Position
      <4>3. i * n + (k + 1) = q + 1 /\ q + 1 \in Nat
        BY <1>2, <1>4, SMT
      <4>4. (q + 1) * n \in Nat
        BY <1>2, <4>3, SMT
      <4> QED
        BY <4>2, <4>3, <4>4
    <3>2. CASE ~(k + 1 < n)
      <4>1. at'[t] = <<i + 1, 0, 0>>
        BY <1>3, <1>7, <3>2 DEF Advanced
      <4>2. Position(t)' = ((i + 1) * n + 0) * n + 0
        BY <4>1 DEF Position
      <4>3. (i + 1) * n + 0 = q + 1 /\ q + 1 \in Nat
        BY <1>2, <1>4, <3>2, SMT
      <4>4. (q + 1) * n \in Nat
        BY <1>2, <4>3, SMT
      <4> QED
        BY <4>2, <4>3, <4>4
    <3> QED
      BY <3>1, <3>2
  <2> HIDE DEF q
  <2>2. (q + 1) * n = q * n + n /\ q * n \in Nat
    BY <1>2, <1>4, SMT
  <2> QED
    BY <1>2, <1>5, <2>1, <2>2
<1> QED
  BY <1>6, <1>7
(* The barrier is never full: the last to arrive releases everyone.        *)
EndInv == MatrixInv /\ DataInv /\ barrier # MatrixThreads

(* It holds at the start.                                                  *)
LEMMA EndInitial == MatrixInit => EndInv
<1> SUFFICES ASSUME MatrixInit PROVE EndInv
  OBVIOUS
<1>1. barrier = {} /\ 0 \in MatrixThreads
  BY ThreadsAssumption DEF MatrixInit, MatrixThreads
<1> QED
  BY <1>1, MatrixInitial, DataInit DEF EndInv

(* Each step keeps it.                                                     *)
LEMMA EndStep == EndInv /\ [MatrixNext]_matrixVars => EndInv'
<1> SUFFICES ASSUME EndInv, [MatrixNext]_matrixVars PROVE EndInv'
  OBVIOUS
<1>1. MatrixInv' /\ DataInv'
  BY MatrixStep, DataStep DEF EndInv
<1>2. \/ barrier' = barrier
      \/ \E t \in MatrixThreads : barrier' = Arrived(barrier, t, MatrixThreads)
  BY DEF MatrixNext, matrixVars, threadedmult, Spawn, JoinAndPrint, matrixmult,
         FirstWait, BeginMultiply, Multiply, SecondWait, BeginUpdate, Update,
         EndIteration
<1>3. ASSUME NEW t \in MatrixThreads
      PROVE  Arrived(barrier, t, MatrixThreads) # MatrixThreads
  <2>1. MatrixThreads # {}
    BY <1>3
  <2> QED
    BY <2>1 DEF Arrived
<1> QED
  BY <1>1, <1>2, <1>3 DEF EndInv, MatrixThreads

(* No thread has come further than to the end.                             *)
LEMMA ComeFits ==
    ASSUME EndInv, NEW t \in MatrixThreads
    PROVE  Come(t) \in Nat /\ Come(t) <= (5 * ITERATIONS) * Turns
<1>1. /\ count[t] \in Nat /\ count[t] <= ITERATIONS
      /\ pc[t] # "done" => count[t] < ITERATIONS
      /\ ITERATIONS \in Nat
  BY CountIsNat, IterationsAssumption DEF EndInv, MatrixInv, BarrierInv
<1>2. Turns \in Nat /\ Position(t) \in Nat /\ Position(t) < Turns
  BY TurnsIsNatural, PositionFits DEF EndInv, MatrixInv
<1>3. Stage(t) \in 0 .. 4 /\ (pc[t] = "done" => Stage(t) = 0)
  BY DEF Stage
<1> DEFINE r == 5 * count[t] + Stage(t)
           all == 5 * ITERATIONS
           extra == IF pc[t] \in {"multiply", "update"} THEN Position(t) ELSE 0
<1>4. /\ r \in Nat /\ all \in Nat /\ extra \in Nat /\ extra < Turns
      /\ IF pc[t] = "done" THEN r <= all /\ extra = 0 ELSE r + 1 <= all
  <2>1. extra \in Nat /\ extra < Turns
    BY <1>2
  <2>2. pc[t] = "done" => extra = 0
    OBVIOUS
  <2> HIDE DEF extra
  <2> QED
    BY <1>1, <1>3, <2>1, <2>2
<1>5. Come(t) = r * Turns + extra
  BY DEF Come
<1> HIDE DEF r, all, extra
<1>6. r * Turns \in Nat /\ all * Turns \in Nat
      /\ (r + 1) * Turns = r * Turns + Turns
      /\ (r <= all => r * Turns <= all * Turns)
      /\ (r + 1 <= all => (r + 1) * Turns <= all * Turns)
  BY <1>2, <1>4, SMT
<1>7. Come(t) \in Nat /\ Come(t) <= all * Turns
  BY <1>2, <1>4, <1>5, <1>6
<1> QED
  BY <1>7 DEF all

(* So something natural is left.                                           *)
LEMMA MatrixLeftType ==
    ASSUME EndInv
    PROVE  /\ \A t \in MatrixThreads : MatrixLeft[t] \in Nat
           /\ SumFunctionOnSet(MatrixLeft, MatrixThreads) \in Nat
<1>1. (5 * ITERATIONS) * Turns \in Nat
  <2>1. 5 * ITERATIONS \in Nat
    BY IterationsAssumption
  <2> QED
    BY <2>1, TurnsIsNatural, SMT
<1>2. \A t \in MatrixThreads : MatrixLeft[t] \in Nat
  BY <1>1, ComeFits DEF MatrixLeft
<1> QED
  BY <1>2, MatrixThreadsFinite, SumIsNatural

(* Nobody is left behind at the barrier: threads that have arrived once    *)
(* more than one that is done have arrived too often.                      *)
LEMMA MatrixMoves == EndInv => MatrixCanMove
<1> SUFFICES ASSUME EndInv, ~MatrixCanMove PROVE FALSE
  OBVIOUS
<1>1. ASSUME NEW t \in MatrixThreads
      PROVE  IF pc[t] = "done" THEN t \notin barrier
             ELSE t \in barrier /\ pc[t] \in {"first barrier", "second barrier"}
  <2>1. pc[t] \in {"top", "first barrier", "multiply", "second barrier",
                   "update", "done"}
    BY DEF EndInv, MatrixInv, MatrixTypeOK
  <2> QED
    BY <2>1 DEF MatrixCanMove, Released, EndInv, MatrixInv, BarrierInv
<1>2. PICK r \in Nat : InRound(r)
  BY DEF EndInv, MatrixInv, BarrierInv
<1>3. PICK u \in MatrixThreads : pc[u] # "done"
  BY DEF MatrixCanMove
<1>4. PICK d \in MatrixThreads : d \notin barrier
  BY DEF EndInv, MatrixInv, MatrixTypeOK
<1>5. 2 * ITERATIONS = r
  <2>1. pc[d] = "done"
    BY <1>1, <1>4
  <2>2. count[d] = ITERATIONS
    BY <2>1 DEF EndInv, DataInv
  <2>3. ArrivedTimes(d) = 2 * ITERATIONS + 0
    BY <2>1, <2>2 DEF ArrivedTimes
  <2>4. ArrivedTimes(d) = r
    BY <1>2, <1>4 DEF InRound
  <2> QED
    BY <2>3, <2>4, IterationsAssumption
<1>6. ArrivedTimes(u) = r + 1
  BY <1>1, <1>2, <1>3 DEF InRound
<1>7. ArrivedTimes(u) <= 2 * ITERATIONS
  <2>1. count[u] \in Nat /\ count[u] < ITERATIONS /\ ITERATIONS \in Nat
    BY <1>3, CountIsNat, IterationsAssumption DEF EndInv, MatrixInv, BarrierInv
  <2> DEFINE a == IF pc[u] \in {"first barrier", "multiply"} THEN 1
                  ELSE IF pc[u] \in {"second barrier", "update"} THEN 2 ELSE 0
  <2>2. ArrivedTimes(u) = 2 * count[u] + a
    BY DEF ArrivedTimes
  <2>3. a \in 0 .. 2
    OBVIOUS
  <2> HIDE DEF a
  <2> QED
    BY <2>1, <2>2, <2>3
<1> QED
  BY <1>5, <1>6, <1>7
LEMMA ComesOn ==
    ASSUME EndInv, NEW t \in MatrixThreads, matrixmult(t)
    PROVE  /\ Come(t)' \in Int /\ Come(t)' > Come(t)
           /\ \A u \in MatrixThreads \ {t} : Come(u)' = Come(u)
<1>0. /\ pc \in [MatrixThreads -> {"top", "first barrier", "multiply",
                                   "second barrier", "update", "done"}]
      /\ DOMAIN count = MatrixThreads /\ DOMAIN at = MatrixThreads
  BY DEF EndInv, MatrixInv, MatrixTypeOK
<1>1. \A u \in MatrixThreads \ {t} :
         pc'[u] = pc[u] /\ count'[u] = count[u] /\ at'[u] = at[u]
  <2>1. CASE FirstWait(t) \/ SecondWait(t) \/ BeginMultiply(t) \/ BeginUpdate(t)
    BY <1>0, <2>1 DEF FirstWait, SecondWait, BeginMultiply, BeginUpdate, Move
  <2>2. CASE Multiply(t) \/ Update(t) \/ EndIteration(t)
    BY <1>0, <2>2 DEF Multiply, Update, EndIteration, Move
  <2> QED
    BY <2>1, <2>2 DEF matrixmult
<1>2. \A u \in MatrixThreads \ {t} : Come(u)' = Come(u)
  BY <1>1 DEF Come, Stage, Position, Turns
<1>3. /\ Turns \in Nat /\ Position(t) \in Nat /\ Position(t) < Turns
      /\ Position(t)' \in Nat /\ count[t] \in Nat
  <2>1. MatrixTypeOK'
    BY MatrixTypeKept DEF EndInv
  <2>2. Position(t)' \in Nat
    <3>1. at'[t] \in (0 .. n) \X Rows \X Rows
      BY <2>1 DEF MatrixTypeOK, MatrixThreads, Rows
    <3>2. PICK i \in 0 .. n, k \in Rows, l \in Rows : at'[t] = <<i, k, l>>
      BY <3>1
    <3>3. Position(t)' = (i * n + k) * n + l
      BY <3>2 DEF Position
    <3>4. n \in Nat /\ i \in Nat /\ k \in Nat /\ l \in Nat
      BY OrderAssumption DEF Rows
    <3>5. i * n + k \in Nat
      BY <3>4, SMT
    <3> QED
      BY <3>3, <3>4, <3>5, SMT
  <2> QED
    BY <2>2, TurnsIsNatural, PositionFits, CountIsNat DEF EndInv, MatrixInv
<1> DEFINE r == 5 * count[t] + Stage(t)
           q == 5 * count'[t] + Stage(t)'
           x == IF pc[t] \in {"multiply", "update"} THEN Position(t) ELSE 0
           y == IF pc'[t] \in {"multiply", "update"} THEN Position(t)' ELSE 0
<1>4. Come(t) = r * Turns + x /\ Come(t)' = q * Turns + y
  BY DEF Come, Turns
<1>5. r \in Nat /\ x \in Nat /\ x < Turns /\ y \in Nat
  <2>1. Stage(t) \in 0 .. 4
    BY DEF Stage
  <2>2. x \in Nat /\ x < Turns
    BY <1>3
  <2>3. y \in Nat
    BY <1>3
  <2> HIDE DEF x, y
  <2> QED
    BY <1>3, <2>1, <2>2, <2>3
<1>6. (q = r /\ y > x) \/ q = r + 1
  <2>1. CASE FirstWait(t) \/ SecondWait(t) \/ BeginMultiply(t) \/ BeginUpdate(t)
    <3>1. count'[t] = count[t]
      BY <2>1 DEF FirstWait, SecondWait, BeginMultiply, BeginUpdate
    <3>2. Stage(t)' = Stage(t) + 1 /\ Stage(t) \in Nat
      <4>1. \/ pc[t] = "top" /\ pc'[t] = "first barrier"
            \/ pc[t] = "first barrier" /\ pc'[t] = "multiply"
            \/ pc[t] = "multiply" /\ pc'[t] = "second barrier"
            \/ pc[t] = "second barrier" /\ pc'[t] = "update"
        BY <1>0, <2>1
           DEF FirstWait, SecondWait, BeginMultiply, BeginUpdate, Move
      <4>2. /\ pc[t] = "top" => Stage(t) = 0
            /\ pc[t] = "first barrier" => Stage(t) = 1
            /\ pc[t] = "multiply" => Stage(t) = 2
            /\ pc[t] = "second barrier" => Stage(t) = 3
        BY DEF Stage
      <4>3. /\ pc'[t] = "first barrier" => Stage(t)' = 1
            /\ pc'[t] = "multiply" => Stage(t)' = 2
            /\ pc'[t] = "second barrier" => Stage(t)' = 3
            /\ pc'[t] = "update" => Stage(t)' = 4
        BY DEF Stage
      <4>4. \/ Stage(t) = 0 /\ Stage(t)' = 1
            \/ Stage(t) = 1 /\ Stage(t)' = 2
            \/ Stage(t) = 2 /\ Stage(t)' = 3
            \/ Stage(t) = 3 /\ Stage(t)' = 4
        BY <4>1, <4>2, <4>3, Zenon
      <4> QED
        BY <4>4
    <3> QED
      BY <1>3, <3>1, <3>2
  <2>2. CASE Multiply(t) \/ Update(t)
    <3>1. /\ pc' = pc /\ count' = count /\ pc[t] \in {"multiply", "update"}
          /\ \E terms \in {1, n} :
                at' = [at EXCEPT ![t] = Advanced(at[t], terms)]
      BY <2>2 DEF Multiply, Update
    <3>2. q = r
      BY <3>1 DEF Stage
    <3>3. Position(t)' > Position(t)
      BY <3>1, PositionAdvances DEF EndInv, MatrixInv
    <3> QED
      BY <3>1, <3>2, <3>3
  <2>3. CASE EndIteration(t)
    <3>1. count'[t] = count[t] + 1 /\ Stage(t) = 4 /\ Stage(t)' = 0
      BY <1>0, <2>3 DEF EndIteration, Move, Stage
    <3> QED
      BY <1>3, <3>1
  <2> QED
    BY <2>1, <2>2, <2>3, <1>1 DEF matrixmult
<1> HIDE DEF r, q, x, y
<1>7. r * Turns \in Nat /\ (r + 1) * Turns = r * Turns + Turns
  BY <1>3, <1>5, SMT
<1>8. Come(t)' \in Int /\ Come(t)' > Come(t)
  BY <1>3, <1>4, <1>5, <1>6, <1>7
<1> QED
  BY <1>2, <1>8

(* A step of a thread brings it on and leaves the others.                  *)
LEMMA MatrixShortens ==
    ASSUME EndInv, MatrixNext
    PROVE  MatrixStepsLeft' < MatrixStepsLeft
<1>1. /\ \A t \in MatrixThreads : MatrixLeft[t] \in Nat
      /\ SumFunctionOnSet(MatrixLeft, MatrixThreads) \in Nat
      /\ spawned \in 0 .. NUM_CORES
  BY MatrixLeftType DEF EndInv, MatrixInv, MatrixTypeOK
<1>2. CASE threadedmult
  <2>1. MatrixLeft' = MatrixLeft
    BY <1>2 DEF threadedmult, Spawn, JoinAndPrint, MatrixLeft, Come, Stage,
                Position, Turns
  <2>2. SumFunctionOnSet(MatrixLeft, MatrixThreads)' =
           SumFunctionOnSet(MatrixLeft, MatrixThreads)
    BY <2>1
  <2> QED
    BY <1>1, <1>2, <2>2, ThreadsAssumption
       DEF threadedmult, Spawn, JoinAndPrint, MatrixStepsLeft
<1>3. ASSUME NEW t \in MatrixThreads, matrixmult(t)
      PROVE  MatrixStepsLeft' < MatrixStepsLeft
  <2>1. spawned' = spawned /\ printed' = printed
    BY <1>3 DEF matrixmult, FirstWait, BeginMultiply, Multiply, SecondWait,
                BeginUpdate, Update, EndIteration
  <2> DEFINE f == MatrixLeft
             g == MatrixLeft'
  <2>2. /\ g[t] \in Int /\ g[t] < f[t]
        /\ \A u \in MatrixThreads \ {t} : g[u] = f[u]
    <3>1. /\ f[t] = (5 * ITERATIONS) * Turns - Come(t)
          /\ g[t] = (5 * ITERATIONS) * Turns - Come(t)'
      BY DEF MatrixLeft, Turns
    <3>2. Come(t)' \in Int /\ Come(t)' > Come(t) /\ Come(t) \in Nat
      BY <1>3, ComesOn, ComeFits
    <3>3. (5 * ITERATIONS) * Turns \in Int
      <4>1. 5 * ITERATIONS \in Nat
        BY IterationsAssumption
      <4> QED
        BY <4>1, TurnsIsNatural, SMT
    <3>4. g[t] \in Int /\ g[t] < f[t]
      BY <3>1, <3>2, <3>3
    <3>5. \A u \in MatrixThreads \ {t} : g[u] = f[u]
      BY <1>3, ComesOn DEF MatrixLeft, Turns
    <3> QED
      BY <3>4, <3>5
  <2>3. SumFunctionOnSet(MatrixLeft, MatrixThreads) =
           SumFunctionOnSet(f, MatrixThreads)
        /\ SumFunctionOnSet(MatrixLeft, MatrixThreads)' =
           SumFunctionOnSet(g, MatrixThreads)
    BY DEF MatrixThreads
  <2>4. \A u \in MatrixThreads : f[u] \in Nat
    BY <1>1
  <2> HIDE DEF f, g
  <2>5. SumFunctionOnSet(g, MatrixThreads) < SumFunctionOnSet(f, MatrixThreads)
        /\ SumFunctionOnSet(g, MatrixThreads) \in Int
    <3>1. \A u \in MatrixThreads : g[u] \in Int
      BY <2>2, <2>4
    <3> QED
      BY <2>2, <2>4, <3>1, MatrixThreadsFinite, SumFalls, SumType
  <2> QED
    BY <1>1, <2>1, <2>3, <2>5, ThreadsAssumption DEF MatrixStepsLeft
<1> QED
  BY <1>2, <1>3 DEF MatrixNext

(* And the matrix program: whatever the threads, rows and iterations, some *)
(* thread can always move, so that none is left alone at a barrier, and    *)
(* every step leaves fewer to come.                                        *)
THEOREM MatrixComesToItsEnd ==
    MatrixSpec => /\ [](MatrixStepsLeft \in Nat /\ MatrixCanMove)
                  /\ [][MatrixStepsLeft' < MatrixStepsLeft]_matrixVars
<1>1. EndInv => MatrixStepsLeft \in Nat /\ MatrixCanMove
  <2> SUFFICES ASSUME EndInv PROVE MatrixStepsLeft \in Nat
    BY MatrixMoves
  <2>1. spawned \in 0 .. NUM_CORES
    BY DEF EndInv, MatrixInv, MatrixTypeOK
  <2> QED
    BY <2>1, MatrixLeftType, ThreadsAssumption DEF MatrixStepsLeft
<1>2. EndInv /\ [MatrixNext]_matrixVars =>
         [MatrixStepsLeft' < MatrixStepsLeft]_matrixVars
  BY MatrixShortens
<1> QED
  BY <1>1, <1>2, EndInitial, EndStep, PTL DEF MatrixSpec
=============================================================================
