----------------------------- MODULE Controllers -----------------------------
(***************************************************************************)
(* The tool's controller and the stand-alone one, called with the same     *)
(* operations in the same order and drawing the same random numbers.  They *)
(* stop when the stand-alone program dies, for a read of a line that was   *)
(* never written, which the tool's controller answers without a change.    *)
(***************************************************************************)
EXTENDS CacheProperties

VARIABLES
    sim_status, sim_global_time, sim_state, sim_data, sim_time_accessed,
    sim_llc_lines, sim_llc, sim_stats, sim_cache_stats

simVars == <<sim_status, sim_global_time, sim_state, sim_data,
             sim_time_accessed, sim_llc_lines, sim_llc, sim_stats,
             sim_cache_stats>>

Sim == INSTANCE Simulator WITH
    status <- sim_status,
    global_time <- sim_global_time,
    state <- sim_state,
    data <- sim_data,
    time_accessed <- sim_time_accessed,
    llc_lines <- sim_llc_lines,
    llc <- sim_llc,
    stats <- sim_stats,
    cache_stats <- sim_cache_stats

BothInit == Init /\ Sim!Init

SimRuns == sim_status = "running"

BothWrite(c, a, v) ==
    /\ SimRuns
    /\ cache_write(c, a, v)
    /\ Sim!cache_write(c, a, v)
    /\ sim_stats'.speculate_cases = stats'.speculate_cases

BothRead(c, a) ==
    /\ SimRuns
    /\ cache_read(c, a)
    /\ Sim!cache_read(c, a)

BothNext ==
    \E c \in Cores, a \in Addrs :
        \/ \E v \in Values : BothWrite(c, a, v)
        \/ BothRead(c, a)

BothSpec == BothInit /\ [][BothNext]_<<vars, simVars>>

-----------------------------------------------------------------------------
(* The state the stand-alone controller has where the tool's has this one. *)
WithoutVictims(s) == IF s = "VICTIMIZED" THEN "INVALID" ELSE s

(* Through all the differences in their code (the order of snooping and    *)
(* inserting, the copied lines, the victimized state) the two controllers  *)
(* keep the same lines in the same caches, with the same ownership and the *)
(* same age, so that they evict the same lines; a victimized copy is an    *)
(* invalid one to the protocol.                                            *)
SameProtocol ==
    /\ \A c \in Cores, l \in Lines :
          /\ sim_state[c][l] = WithoutVictims(state[c][l])
          /\ sim_time_accessed[c][l] = time_accessed[c][l]
    /\ sim_llc_lines = llc_lines

(* They count the same, but for what victims change: the side of the       *)
(* address bound on which a speculated copy is counted, and that for the   *)
(* word of a victim read back the stand-alone controller may go to the     *)
(* LLC.                                                                    *)
SameCounters ==
    SimRuns =>
        /\ sim_stats.bus_transactions = stats.bus_transactions
        /\ sim_stats.total_cases = stats.total_cases
        /\ sim_stats.success_addr_bound + sim_stats.failed_addr_bound
             = stats.speculate_cases
        /\ \A c \in Cores :
              LET fetched == sim_cache_stats[c].num_read_from_llc
              IN  /\ [cache_stats[c] EXCEPT !.num_read_from_llc = fetched]
                        = sim_cache_stats[c]
                  /\ fetched >= cache_stats[c].num_read_from_llc

(* The stand-alone program dies exactly at the first read that the tool's  *)
(* controller answers with not_in_system: it never exits for a line it     *)
(* cannot find.                                                            *)
DiesOfUnwrittenReads ==
    [][/\ sim_status' # "exited"
       /\ sim_status' = "crashed" <=>
             /\ \E c \in Cores, a \in Addrs : cache_read(c, a)
             /\ result'.not_in_system]_<<vars, simVars>>

SimCoherent ==
    \A c \in Cores, l \in Lines :
        sim_state[c][l] \in ValidStates => sim_data[c][l] = sim_llc[l]

(* Of the three ways in which the tool's controller loses coherence of     *)
(* data only one is older than the tool: a copy that becomes valid by one  *)
(* word.  (Here also if another core owns the line, which copies nothing.) *)
SimPartialFill(c, a) ==
    LET l == LineOf(a) IN
    /\ sim_state[c][l] \notin ValidStates
    /\ \E w \in Sim!Offsets \ {Sim!Offset(a)} :
          sim_data[c][l][w] # sim_llc[l][w]

SimCoherenceLoss ==
    [][SimCoherent /\ ~SimCoherent' =>
          \E c \in Cores, a \in Addrs :
              CalledBy(c, a) /\ SimPartialFill(c, a)]_<<vars, simVars>>

-----------------------------------------------------------------------------
(* Stated by the stand-alone program's comments, and not kept by its code. *)

(* CacheSimulator/cache_system.h:15: the ranges main passes are "start-    *)
(* inclusive, end-exclusive addresses which are allowed to perform         *)
(* protocol": no copy that a write in such a range picks for speculation   *)
(* is counted as out of bounds.                                            *)
SimSpeculatesInRange ==
    [][\A c \in Cores, a \in Addrs, v \in Values :
          BothWrite(c, a, v) /\ check_address(a) =>
              sim_stats'.failed_addr_bound = sim_stats.failed_addr_bound
      ]_<<vars, simVars>>
=============================================================================
