--------------------------- MODULE MCCacheSystem ---------------------------
(***************************************************************************)
(* CacheSystem on small instances.                                         *)
(***************************************************************************)
EXTENDS CacheProperties

CONSTANTS
    MaxTime     \* calls a run of the counting properties explores

(* One line of two words, the first approximable, and a second line that  *)
(* can evict it.                                                           *)
TwoLineAddrs == {0, 8, 16}
FirstWord == {<<0, 8>>}

(* Two lines of one word, all of it approximable.                          *)
OneWordAddrs == {0, 8}
AllMagic == {<<0, 16>>}

(* Lines 0, 2 and 4 compete for the two ways of one set of two, line 1 has *)
(* the other set to itself; the last line is approximable.                 *)
LRUAddrs == {0, 8, 16, 32}
LRUMagic == {<<32, 40>>}

(* Stamps matter only by their order within a set, and the counters and    *)
(* the last answer not at all, to what can happen next: states that agree  *)
(* on this view have the same futures.                                     *)
Recency ==
    [c \in Cores |->
        [l \in Lines |->
            Cardinality({m \in Lines : /\ Resident(c, m)
                                       /\ SetOf(m) = SetOf(l)
                                       /\ time_accessed[c][m]
                                            < time_accessed[c][l]})]]
ProtocolView == <<state, data, Recency, llc_lines, llc>>

(* The first MaxTime calls, for the runs whose counters the view would     *)
(* hide.                                                                   *)
TimedNext == global_time < MaxTime /\ Next
TimedSpec == Init /\ [][TimedNext]_vars
=============================================================================
