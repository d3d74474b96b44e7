---------------------------- MODULE MCControllers ----------------------------
(***************************************************************************)
(* Controllers on small instances.                                         *)
(***************************************************************************)
EXTENDS Controllers, MCCacheSystem

SimRecency ==
    [c \in Cores |->
        [l \in Lines |->
            Cardinality({m \in Lines : /\ Sim!Resident(c, m)
                                       /\ SetOf(m) = SetOf(l)
                                       /\ sim_time_accessed[c][m]
                                            < sim_time_accessed[c][l]})]]

(* For the run about states and replacement, which no word influences.     *)
ReplacementView ==
    <<state, Recency, llc_lines, sim_status, sim_state, SimRecency,
      sim_llc_lines>>

(* For the run about the stand-alone controller's words; its sets hold one *)
(* line, so that no stamp matters.                                         *)
SimView == <<state, llc_lines, sim_status, sim_state, sim_llc_lines, sim_data,
             sim_llc>>

TimedBothNext == global_time < MaxTime /\ BothNext
TimedBothSpec == BothInit /\ [][TimedBothNext]_<<vars, simVars>>
=============================================================================
