------------------------------ MODULE Simulator ------------------------------
(***************************************************************************)
(* The stand-alone controller of CacheSimulator/test.cpp, the program that *)
(* the tool's cache_system.h grew out of.  It keeps the same caches        *)
(* coherent in the same way but copies no owner's line, inserts a missing  *)
(* line before it snoops, and indexes a line's words by the byte offset of *)
(* the address.                                                            *)
(*                                                                         *)
(* check_address accepts no address, so that nothing is ever victimized;   *)
(* the path of cache_read for a victimized copy is left out, and with it   *)
(* within_threshold and the counters success and rollback.                 *)
(***************************************************************************)
EXTENDS AddressConvert, FiniteSets

CONSTANTS
    num_cores,              \* number of private caches
    Addrs,                  \* the byte addresses accessed
    Values,                 \* the words written
    L1_SET_ASSOCIATIVITY,   \* lines a private cache set may hold
    magic_memory,           \* pairs <<start, end>>
    speculation_percent     \* 0..100: how often rand() picks speculation

VARIABLES
    status,         \* of the process: "running", "crashed" or "exited"
    global_time,    \* one tick per call
    state,          \* state[c][l], "ABSENT" if the line is not resident
    data,           \* data[c][l][w]: the copy's words (zero when absent)
    time_accessed,  \* time_accessed[c][l] (zero when absent)
    llc_lines,      \* lines of the shared cache
    llc,            \* llc[l][w]: its words
    stats,          \* System_stats
    cache_stats     \* cache_stats[c]: Cache_stat of each private cache

Cores == 0 .. num_cores - 1
Lines == {LineOf(a) : a \in Addrs}

(* A line's words that an address reaches; the others stay zero, unread.   *)
Offset(a) == a % NUM_BLOCKS
Offsets == {Offset(a) : a \in Addrs}
EmptyLine == [w \in Offsets |-> 0]
ValidStates == {"MODIFIED", "SHARED"}

Init ==
    /\ status = "running"
    /\ global_time = 0
    /\ state = [c \in Cores |-> [l \in Lines |-> "ABSENT"]]
    /\ data = [c \in Cores |-> [l \in Lines |-> EmptyLine]]
    /\ time_accessed = [c \in Cores |-> [l \in Lines |-> 0]]
    /\ llc_lines = {}
    /\ llc = [l \in Lines |-> EmptyLine]
    /\ stats = [success_addr_bound |-> 0, failed_addr_bound |-> 0,
                speculate_cases |-> 0, total_cases |-> 0,
                bus_transactions |-> 0]
    /\ cache_stats =
          [c \in Cores |->
             [num_access |-> 0, num_reads_hits |-> 0, num_writes_hits |-> 0,
              num_read_misses |-> 0, num_write_misses |-> 0,
              num_read_from_llc |-> 0, num_write_to_llc |-> 0]]

-----------------------------------------------------------------------------
(* Both comparisons are with the start of the range.                       *)
check_address(a) == \E r \in magic_memory : a >= r[1] /\ a < r[1]

Resident(c, l) == state[c][l] # "ABSENT"
Snooped(c, l) == {o \in Cores \ {c} : Resident(o, l)}
Sharers(c, l) == {o \in Snooped(c, l) : state[o][l] \in ValidStates}

SetLines(c, l) == {m \in Lines : Resident(c, m) /\ SetOf(m) = SetOf(l)}
LRU(c, l) ==
    CHOOSE m \in SetLines(c, l) :
        \A n \in SetLines(c, l) : time_accessed[c][m] <= time_accessed[c][n]
Evicted(c, l) ==
    IF Resident(c, l) \/ Cardinality(SetLines(c, l)) < L1_SET_ASSOCIATIVITY
    THEN {} ELSE {LRU(c, l)}

(* The copies that rand() picks for speculation.                           *)
Draws(sharers) ==
    {d \in SUBSET sharers :
        /\ speculation_percent = 0 => d = {}
        /\ speculation_percent = 100 => d = sharers}

Demoted(a, picked) ==
    IF picked /\ check_address(a) THEN "VICTIMIZED" ELSE "INVALID"

(* Fault: a snoop does not stamp the line it finds.                        *)
Stamp_OwnOnly(c, l) ==
    /\ global_time' = global_time + 1
    /\ time_accessed' =
          [o \in Cores |->
              [m \in Lines |->
                  IF m = l /\ o = c THEN global_time + 1
                  ELSE IF o = c /\ m \in Evicted(c, l) THEN 0
                  ELSE time_accessed[o][m]]]

(* The line is stamped here and wherever a snoop finds it.                 *)
Stamp(c, l) ==
    LET snooped == Snooped(c, l)
        evicted == Evicted(c, l)
    IN
    /\ global_time' = global_time + 1
    /\ time_accessed' =
          [o \in Cores |->
              [m \in Lines |->
                  IF m = l /\ (o = c \/ o \in snooped)
                  THEN global_time + 1
                  ELSE IF o = c /\ m \in evicted THEN 0
                  ELSE time_accessed[o][m]]]

(* Core c's copy of line l gets state own and these words, for the line it *)
(* evicts if there is one; a valid copy elsewhere gets state other[o].     *)
Becomes(c, l, own, words, other) ==
    LET sharers == Sharers(c, l)
        evicted == Evicted(c, l)
    IN
    /\ state' =
          [o \in Cores |->
              [m \in Lines |->
                  IF m = l
                  THEN IF o = c THEN own
                       ELSE IF o \in sharers THEN other[o]
                       ELSE state[o][m]
                  ELSE IF o = c /\ m \in evicted THEN "ABSENT"
                  ELSE state[o][m]]]
    /\ data' = [data EXCEPT ![c] =
                  [m \in Lines |->
                      IF m = l THEN words
                      ELSE IF m \in evicted THEN EmptyLine
                      ELSE data[c][m]]]

(* Faults: a line that is not in the LLC is not entered; a line that is    *)
(* there keeps its word.                                                   *)
update_llc_NoInsert(a, v) ==
    /\ llc_lines' = llc_lines
    /\ llc' = [llc EXCEPT ![LineOf(a)][Offset(a)] = v]
update_llc_OnlyInsert(a, v) ==
    /\ llc_lines' = llc_lines \union {LineOf(a)}
    /\ llc' = IF LineOf(a) \in llc_lines THEN llc
              ELSE [llc EXCEPT ![LineOf(a)][Offset(a)] = v]

update_llc(a, v) ==
    /\ llc_lines' = llc_lines \union {LineOf(a)}
    /\ llc' = [llc EXCEPT ![LineOf(a)][Offset(a)] = v]

(* The caller's counters become own; each snooped cache counts an access.  *)
CountCall(c, snooped, own) ==
    cache_stats' =
        [o \in Cores |->
            IF o = c THEN own
            ELSE IF o \in snooped
                 THEN [cache_stats[o] EXCEPT !.num_access = @ + 1]
                 ELSE cache_stats[o]]

(* Fault: a snooped copy is counted whether or not it is valid.            *)
CountSnoops_Invalid(a, c, drawn, bus) ==
    LET bound == check_address(a)
        picked == Cardinality(drawn)
    IN stats' =
        [stats EXCEPT
            !.bus_transactions = @ + bus,
            !.total_cases = @ + Cardinality(Snooped(c, LineOf(a))),
            !.speculate_cases = @ + picked,
            !.success_addr_bound = @ + (IF bound THEN picked ELSE 0),
            !.failed_addr_bound = @ + (IF bound THEN 0 ELSE picked)]

(* The counters of a write by core c that drew these copies.               *)
CountSnoops(a, c, drawn, bus) ==
    LET bound == check_address(a)
        picked == Cardinality(drawn)
    IN stats' =
        [stats EXCEPT
            !.bus_transactions = @ + bus,
            !.total_cases = @ + Cardinality(Sharers(c, LineOf(a))),
            !.speculate_cases = @ + picked,
            !.success_addr_bound = @ + (IF bound THEN picked ELSE 0),
            !.failed_addr_bound = @ + (IF bound THEN 0 ELSE picked)]

CountBus == stats' = [stats EXCEPT !.bus_transactions = @ + 1]

-----------------------------------------------------------------------------
(* cache_write                                                             *)

WriteHitModified(c, a, v) ==
    LET l == LineOf(a) IN
    /\ state[c][l] = "MODIFIED"
    /\ global_time' = global_time + 1
    /\ time_accessed' = [time_accessed EXCEPT ![c][l] = global_time + 1]
    /\ data' = [data EXCEPT ![c][l][Offset(a)] = v]
    /\ update_llc(a, v)
    /\ CountCall(c, {}, [cache_stats[c] EXCEPT !.num_access = @ + 1,
                                               !.num_writes_hits = @ + 1,
                                               !.num_write_to_llc = @ + 1])
    /\ UNCHANGED <<status, state, stats>>

WriteHitUpgrade(c, a, v) ==
    LET l == LineOf(a) IN
    /\ state[c][l] \in {"SHARED", "INVALID"}
    /\ Stamp(c, l)
    /\ \E drawn \in Draws(Sharers(c, l)) :
          /\ Becomes(c, l, "MODIFIED", [data[c][l] EXCEPT ![Offset(a)] = v],
                     [o \in Cores |-> Demoted(a, o \in drawn)])
          /\ CountSnoops(a, c, drawn, 1)
    /\ update_llc(a, v)
    /\ CountCall(c, Snooped(c, l), [cache_stats[c] EXCEPT
                                       !.num_access = @ + 1,
                                       !.num_writes_hits = @ + 1,
                                       !.num_write_to_llc = @ + 1])
    /\ UNCHANGED status

(* The new line is zero but for the word; every core visited, the caller   *)
(* too, is a bus transaction.                                              *)
WriteMiss(c, a, v) ==
    LET l == LineOf(a) IN
    /\ ~Resident(c, l)
    /\ Stamp(c, l)
    /\ \E drawn \in Draws(Sharers(c, l)) :
          /\ Becomes(c, l, "MODIFIED", [EmptyLine EXCEPT ![Offset(a)] = v],
                     [o \in Cores |-> Demoted(a, o \in drawn)])
          /\ CountSnoops(a, c, drawn, num_cores)
    /\ update_llc(a, v)
    /\ CountCall(c, Snooped(c, l), [cache_stats[c] EXCEPT
                                       !.num_access = @ + 1,
                                       !.num_write_misses = @ + 1,
                                       !.num_write_to_llc = @ + 1])
    /\ UNCHANGED status

cache_write(c, a, v) ==
    \/ WriteHitModified(c, a, v)
    \/ WriteHitUpgrade(c, a, v)
    \/ WriteMiss(c, a, v)

-----------------------------------------------------------------------------
(* cache_read                                                              *)

ReadHit(c, a) ==
    LET l == LineOf(a) IN
    /\ state[c][l] \in ValidStates
    /\ global_time' = global_time + 1
    /\ time_accessed' = [time_accessed EXCEPT ![c][l] = global_time + 1]
    /\ CountCall(c, {}, [cache_stats[c] EXCEPT !.num_access = @ + 1,
                                               !.num_reads_hits = @ + 1])
    /\ UNCHANGED <<status, state, data, llc_lines, llc, stats>>

(* The word comes from the last valid copy, or from the LLC; if that does  *)
(* not have the line the program exits.                                    *)
ReadInvalid(c, a) ==
    LET l == LineOf(a)
        w == Offset(a)
        fromLLC == Sharers(c, l) = {}
        lastSharer == CHOOSE o \in Sharers(c, l) :
                        \A p \in Sharers(c, l) : p <= o
        valid == IF fromLLC THEN llc[l][w] ELSE data[lastSharer][l][w]
    IN
    /\ state[c][l] = "INVALID"
    /\ Stamp(c, l)
    /\ Becomes(c, l, "SHARED", [data[c][l] EXCEPT ![w] = valid],
               [o \in Cores |-> "SHARED"])
    /\ CountBus
    /\ CountCall(c, Snooped(c, l),
                 [cache_stats[c] EXCEPT
                     !.num_access = @ + 1,
                     !.num_reads_hits = @ + 1,
                     !.num_read_from_llc = @ + (IF fromLLC THEN 1 ELSE 0)])
    /\ status' = IF fromLLC /\ l \notin llc_lines THEN "exited" ELSE status
    /\ UNCHANGED <<llc_lines, llc>>

(* The LLC's line is inserted; an owner elsewhere becomes a sharer, and    *)
(* keeps its own words.                                                    *)
ReadMiss(c, a) ==
    LET l == LineOf(a) IN
    /\ ~Resident(c, l)
    /\ l \in llc_lines
    /\ Stamp(c, l)
    /\ Becomes(c, l, "SHARED", llc[l], [o \in Cores |-> "SHARED"])
    /\ CountBus
    /\ CountCall(c, Snooped(c, l), [cache_stats[c] EXCEPT
                                       !.num_access = @ + 1,
                                       !.num_read_misses = @ + 1,
                                       !.num_read_from_llc = @ + 1])
    /\ UNCHANGED <<status, llc_lines, llc>>

(* The LLC has no line: what is inserted has no words, and the answer is   *)
(* read through the null pointer of its empty vector.  Nothing that the    *)
(* call changed before outlives the process.                               *)
ReadNowhere(c, a) ==
    /\ ~Resident(c, LineOf(a))
    /\ LineOf(a) \notin llc_lines
    /\ status' = "crashed"
    /\ UNCHANGED <<global_time, state, data, time_accessed, llc_lines, llc,
                   stats, cache_stats>>

cache_read(c, a) ==
    \/ ReadHit(c, a)
    \/ ReadInvalid(c, a)
    \/ ReadMiss(c, a)
    \/ ReadNowhere(c, a)
=============================================================================
