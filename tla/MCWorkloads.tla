----------------------------- MODULE MCWorkloads -----------------------------
(***************************************************************************)
(* The workloads on small instances, and a program that records a few      *)
(* instructions and has them replayed, one at a time: which one is chosen  *)
(* once, and the others stay at their initial states.                      *)
(***************************************************************************)
EXTENDS MatrixMultiply, SumParallel, Multithread, Replay

CONSTANTS
    MaxRecorded,    \* instructions recorded
    MaxDirect       \* total calls up to which direct calls are made

OneAddr == {0}
Approximate == {<<0, 8>>}

VARIABLE program

workloadVars == <<program, matrixVars, sumVars, mtVars, allVars>>

WorkloadsInit ==
    /\ program \in {"matrix", "sum", "multithread", "recorder"}
    /\ MatrixInit /\ SumInit /\ MTInit /\ ReplayInit
    /\ program # "multithread" => PTHREAD_SYNC

RecorderNext ==
    \/ /\ Recorded < MaxRecorded
       /\ \E c \in Cores, a \in Addrs :
             \/ fake_read(c, a)
             \/ \E v \in Values : fake_write(c, a, v)
    \/ /\ global_time < MaxDirect
       /\ \E c \in Cores, a \in Addrs : Direct(c, a)
    \/ Start
    \/ Loop

WorkloadsNext ==
    \/ /\ program = "matrix"
       /\ MatrixNext /\ UNCHANGED <<program, sumVars, mtVars, allVars>>
    \/ /\ program = "sum"
       /\ SumNext /\ UNCHANGED <<program, matrixVars, mtVars, allVars>>
    \/ /\ program = "multithread"
       /\ MTNext /\ UNCHANGED <<program, matrixVars, sumVars, allVars>>
    \/ /\ program = "recorder"
       /\ RecorderNext /\ UNCHANGED <<program, matrixVars, sumVars, mtVars>>

(* The fairness of each program's own specification, while it is the one   *)
(* that runs.                                                              *)
Fairness ==
    /\ WF_matrixVars(program = "matrix" /\ threadedmult)
    /\ \A t \in MatrixThreads :
          WF_matrixVars(program = "matrix" /\ matrixmult(t))
    /\ WF_sumVars(program = "sum" /\ main_func)
    /\ \A t \in SumThreads : WF_sumVars(program = "sum" /\ AddSlice(t))
    /\ WF_mtVars(program = "multithread" /\ MTMain)
    /\ \A t \in Workers : WF_mtVars(program = "multithread" /\ simpleThread(t))
    /\ WF_allVars(program = "recorder" /\ Loop)

WorkloadsSpec == WorkloadsInit /\ [][WorkloadsNext]_workloadVars /\ Fairness

MatrixProgramEnds == program = "matrix" => MatrixEnds
SumProgramEnds == program = "sum" => SumEnds
MultithreadProgramEnds == program = "multithread" => MultithreadEnds
=============================================================================
