-------------------------- MODULE CacheProperties --------------------------
(***************************************************************************)
(* What the cache controller promises, stated over CacheSystem, and what   *)
(* its comments promise that the code does not keep.                       *)
(***************************************************************************)
EXTENDS CacheSystem

(* Coherence of ownership: while a core holds a line MODIFIED no other     *)
(* core holds it MODIFIED or SHARED.  Every path that grants ownership     *)
(* (write upgrade, write miss) or that shares a line (the two refills, the *)
(* read miss) has its own snoop loop to keep this true.                    *)
SingleWriter ==
    \A c \in Cores, l \in Lines :
        state[c][l] = "MODIFIED" => Sharers(c, l) = {}

(* Inclusion: a line in any private cache is in the LLC, so that a read    *)
(* that finds its copy INVALID and no valid copy elsewhere never returns   *)
(* not_in_system.                                                          *)
Inclusion ==
    \A c \in Cores, l \in Lines : Resident(c, l) => l \in llc_lines

(* Only lines with approximable memory are victimized: check_address is    *)
(* asked about the written address, while the state is the whole line's.   *)
VictimizedIsApproximable ==
    \A c \in Cores, l \in Lines :
        state[c][l] = "VICTIMIZED" =>
            \E a \in Addrs : LineOf(a) = l /\ check_address(a)

-----------------------------------------------------------------------------
(* LRU replacement                                                         *)

(* Two lines of one cache never carry the same stamp, and no stamp is in   *)
(* the future: the LRU scan has one answer, whatever the order in which    *)
(* the set's vector holds the lines.                                       *)
DistinctStamps ==
    \A c \in Cores : \A l, m \in {k \in Lines : Resident(c, k)} :
        /\ time_accessed[c][l] \in 1 .. global_time
        /\ time_accessed[c][l] = time_accessed[c][m] => l = m

(* A set of a private cache never outgrows its associativity.              *)
WithinAssociativity ==
    \A c \in Cores, l \in Lines :
        Cardinality(SetLines(c, l)) <= L1_SET_ASSOCIATIVITY

(* A line leaves a private cache only when its set is full, for a line of  *)
(* the same set that comes in, and only if it is the line of that set that *)
(* was touched (by its own core or by a snoop) the longest ago.            *)
EvictsLeastRecent ==
    [][\A c \in Cores, l \in Lines :
          Resident(c, l) /\ ~Resident(c, l)' =>
            /\ Cardinality(SetLines(c, l)) = L1_SET_ASSOCIATIVITY
            /\ \E m \in Lines : /\ SetOf(m) = SetOf(l)
                                /\ ~Resident(c, m) /\ Resident(c, m)'
            /\ \A m \in SetLines(c, l) \ {l} :
                  /\ time_accessed[c][l] < time_accessed[c][m]
                  /\ Resident(c, m)']_vars

-----------------------------------------------------------------------------
(* Coherence of data                                                       *)

(* Every valid copy holds what the write-through LLC holds.                *)
Coherent ==
    \A c \in Cores, l \in Lines :
        state[c][l] \in ValidStates => data[c][l] = llc[l]

(* The three ways a call of core c on address a can leave a valid copy     *)
(* that differs from the LLC:                                              *)
(* a write miss while another core owns the line, whose copy then replaces *)
(* the new line, written word included;                                    *)
OverwrittenByOwner(c, a) ==
    ~Resident(c, LineOf(a)) /\ Owners(c, LineOf(a)) # {}

(* a copy that becomes valid by one word only, its other words being stale *)
(* (or, in a line just allocated, zero);                                   *)
PartialFill(c, a) ==
    LET l == LineOf(a)
        own == IF Resident(c, l) THEN data[c][l] ELSE EmptyLine
    IN
    /\ state[c][l] \notin ValidStates
    /\ Owners(c, l) = {}
    /\ \E w \in Words \ {WordOf(a)} : own[w] # llc[l][w]

(* a victimized copy read when no valid copy is left to refill it from.    *)
LostVictim(c, a) ==
    LET l == LineOf(a) IN
    state[c][l] = "VICTIMIZED" /\ Sharers(c, l) = {}

CalledBy(c, a) == (\E v \in Values : cache_write(c, a, v)) \/ cache_read(c, a)

(* No other call makes a coherent system incoherent: upgrades that copy    *)
(* the owner's line, refills from the owner, read misses and hits keep     *)
(* every valid copy equal to the LLC.                                      *)
CoherenceLossExplained ==
    [][Coherent /\ ~Coherent' =>
          \E c \in Cores, a \in Addrs :
              /\ CalledBy(c, a)
              /\ \/ OverwrittenByOwner(c, a)
                 \/ PartialFill(c, a)
                 \/ LostVictim(c, a)]_vars

-----------------------------------------------------------------------------
(* Statistics                                                              *)

Victims == {x \in Cores \X Lines : state[x[1]][x[2]] = "VICTIMIZED"}

(* Every line victimized is counted once in success_addr_bound, and at     *)
(* most once more when it is read back (success, rollback or same_line);   *)
(* the victims still waiting make up the difference, but for those that    *)
(* were evicted or overwritten.                                            *)
VictimsAccounted ==
    Cardinality(Victims) + stats.success + stats.rollback + stats.same_line
        <= stats.success_addr_bound

(* Every speculated copy is counted on one side of the address bound and   *)
(* was a valid copy met by a snooping write.                               *)
SpeculationCounted ==
    /\ stats.speculate_cases
         = stats.success_addr_bound + stats.failed_addr_bound
    /\ stats.speculate_cases <= stats.total_cases

Calls(s) == s.num_reads_hits + s.num_writes_hits
            + s.num_read_misses + s.num_write_misses

(* Every call is counted in exactly one of the four hit and miss counters  *)
(* of exactly one core; a core's num_access also counts the calls of       *)
(* others that snooped it, at most one count per call; and every write     *)
(* reaches the LLC once.                                                   *)
EachCallCountedOnce ==
    /\ SumFunction([c \in Cores |-> Calls(cache_stats[c])]) = global_time
    /\ \A c \in Cores :
          /\ Calls(cache_stats[c]) <= cache_stats[c].num_access
          /\ cache_stats[c].num_access <= global_time
          /\ cache_stats[c].num_write_to_llc
               = cache_stats[c].num_writes_hits + cache_stats[c].num_write_misses

(* Every victim read back at an approximable address is tallied once       *)
(* against the margin and once against each threshold, and a difference    *)
(* within a threshold is within every wider one.                           *)
TalliesAgree ==
    /\ accuracy.success_count + accuracy.rollback_count
         = stats.success + stats.rollback
    /\ \A i \in Thresholds :
          /\ accuracy.error_array[i] + accuracy.failure_array[i]
               = accuracy.success_count + accuracy.rollback_count
          /\ \A j \in Thresholds :
                i <= j => accuracy.error_array[i] <= accuracy.error_array[j]

-----------------------------------------------------------------------------
(* Stated by the code's comments, and not kept by the code.                *)

(* cache_system.h:487: a write miss will "Write to it": after a write the  *)
(* caller's copy holds the word written.                                   *)
WriterKeepsItsWord ==
    [][\A c \in Cores, a \in Addrs, v \in Values :
          cache_write(c, a, v) => data'[c][LineOf(a)][WordOf(a)] = v]_vars

(* cache_system.h:69-70: a rollback "doesn't pass the accuracy test" and a *)
(* success "passes" it: the two counters agree with the margin's tallies.  *)
SuccessIsWithinMargin ==
    /\ stats.success = accuracy.success_count
    /\ stats.rollback = accuracy.rollback_count
=============================================================================
