---------------------------- MODULE CacheSystem ----------------------------
(***************************************************************************)
(* The cache controller of source/tools/18742/cache_system.h: num_cores    *)
(* private L1 caches kept coherent by a snooping MSI protocol with a       *)
(* fourth state, VICTIMIZED, in front of a shared write-through LLC.  A    *)
(* copy that another core's write would invalidate may be victimized       *)
(* instead, if the written address lies in approximable ("magic") memory;  *)
(* the next read of a victimized copy is handed both the stale word and    *)
(* the valid one.                                                          *)
(*                                                                         *)
(* Every call of cache_write and cache_read runs to completion under the   *)
(* tool's pinLock, so one call is one step.  A line is named by its line   *)
(* number (tag and set index together; see AddressConvert).                *)
(***************************************************************************)
EXTENDS AddressConvert, FiniteSets, FiniteSetsExt

CONSTANTS
    num_cores,              \* number of private caches
    Addrs,                  \* the byte addresses the program touches
    Values,                 \* the words it writes (zero is the initial word)
    L1_SET_ASSOCIATIVITY,   \* lines a private cache set may hold
    magic_memory,           \* pairs <<start, end>>: approximable addresses
    speculation_percent,    \* 0..100: how often rand() picks speculation
    margin_of_error         \* accepted difference, in thousandths

ASSUME CoresAssumption == num_cores \in Nat \ {0}
ASSUME AddrsAssumption == Addrs \subseteq Nat /\ IsFiniteSet(Addrs)
ASSUME ValuesAssumption == Values \subseteq Nat
ASSUME AssociativityAssumption == L1_SET_ASSOCIATIVITY \in Nat \ {0}
ASSUME MagicAssumption ==
    \A r \in magic_memory : r[1] \in Nat /\ r[2] \in Nat
ASSUME PercentAssumption == speculation_percent \in 0 .. 100
ASSUME MarginAssumption == margin_of_error \in Nat

Cores == 0 .. num_cores - 1
Lines == {LineOf(a) : a \in Addrs}
Data == Values \union {0}
EmptyLine == [w \in Words |-> 0]

ValidStates == {"MODIFIED", "SHARED"}
CacheStates == ValidStates \union {"INVALID", "VICTIMIZED"}

(* The thresholds of percentage_array (0.1, 1, 5, 10, 20, 50 and 100       *)
(* percent), in thousandths so that they are integers.                     *)
percentage_array == <<1, 10, 50, 100, 200, 500, 1000>>

VARIABLES
    global_time,    \* one tick per call; stamps lines for LRU
    total_instr,    \* calls counted for print_parallel_stats
    state,          \* state[c][l]: coherence state, "ABSENT" if not resident
    data,           \* data[c][l][w]: the copy's words (zero when absent)
    time_accessed,  \* time_accessed[c][l]: LRU stamp (zero when absent)
    llc_lines,      \* lines the shared cache holds; it never evicts
    llc,            \* llc[l][w]: the shared cache's words
    stats,          \* System_stats
    accuracy,       \* what within_threshold tallies
    cache_stats,    \* cache_stats[c]: Cache_stat of each private cache
    result          \* the Read_tuple the last cache_read returned

protocolVars == <<state, data, time_accessed, llc_lines, llc>>
statVars == <<stats, accuracy, cache_stats>>
vars == <<global_time, total_instr, state, data, time_accessed, llc_lines,
          llc, stats, accuracy, cache_stats, result>>

System_stats ==
    [rollback : Nat, success : Nat, success_addr_bound : Nat,
     failed_addr_bound : Nat, speculate_cases : Nat, total_cases : Nat,
     same_line : Nat, bus_transactions : Nat]

Cache_stat ==
    [num_access : Nat, num_reads_hits : Nat, num_writes_hits : Nat,
     num_read_misses : Nat, num_write_misses : Nat,
     num_read_from_llc : Nat, num_write_to_llc : Nat]

Read_tuple ==
    [speculated : BOOLEAN, not_in_system : BOOLEAN,
     valid_data : Data, invalid_data : Data]

Thresholds == DOMAIN percentage_array

Accuracy ==
    [success_count : Nat, rollback_count : Nat,
     error_array : [Thresholds -> Nat], failure_array : [Thresholds -> Nat]]

TypeOK ==
    /\ global_time \in Nat
    /\ total_instr \in Nat
    /\ state \in [Cores -> [Lines -> CacheStates \union {"ABSENT"}]]
    /\ data \in [Cores -> [Lines -> [Words -> Data]]]
    /\ time_accessed \in [Cores -> [Lines -> Nat]]
    /\ llc_lines \subseteq Lines
    /\ llc \in [Lines -> [Words -> Data]]
    /\ stats \in System_stats
    /\ accuracy \in Accuracy
    /\ cache_stats \in [Cores -> Cache_stat]
    /\ result \in Read_tuple

Init ==
    /\ global_time = 0
    /\ total_instr = 0
    /\ state = [c \in Cores |-> [l \in Lines |-> "ABSENT"]]
    /\ data = [c \in Cores |-> [l \in Lines |-> EmptyLine]]
    /\ time_accessed = [c \in Cores |-> [l \in Lines |-> 0]]
    /\ llc_lines = {}
    /\ llc = [l \in Lines |-> EmptyLine]
    /\ stats = [rollback |-> 0, success |-> 0, success_addr_bound |-> 0,
                failed_addr_bound |-> 0, speculate_cases |-> 0,
                total_cases |-> 0, same_line |-> 0, bus_transactions |-> 0]
    /\ accuracy = [success_count |-> 0, rollback_count |-> 0,
                   error_array |-> [i \in Thresholds |-> 0],
                   failure_array |-> [i \in Thresholds |-> 0]]
    /\ cache_stats =
          [c \in Cores |->
             [num_access |-> 0, num_reads_hits |-> 0, num_writes_hits |-> 0,
              num_read_misses |-> 0, num_write_misses |-> 0,
              num_read_from_llc |-> 0, num_write_to_llc |-> 0]]
    /\ result = [speculated |-> FALSE, not_in_system |-> FALSE,
                 valid_data |-> 0, invalid_data |-> 0]

-----------------------------------------------------------------------------
(* What a call looks up before it changes anything.                        *)

check_address(a) == \E r \in magic_memory : r[1] <= a /\ a < r[2]

Resident(c, l) == state[c][l] # "ABSENT"

(* The other caches in which lookup_line finds the line, those of them     *)
(* with a valid copy, and those that own it.                               *)
Snooped(c, l) == {o \in Cores \ {c} : Resident(o, l)}
Sharers(c, l) == {o \in Snooped(c, l) : state[o][l] \in ValidStates}
Owners(c, l) == {o \in Snooped(c, l) : state[o][l] = "MODIFIED"}

(* Fault: the snoop loop forgets to copy the owner's line.                 *)
CopiedLine_Forgotten(c, l, own) == own

(* The snoop loops visit the cores in index order and copy a modified line *)
(* over the caller's, so the last owner's line is what the caller keeps.   *)
CopiedLine(c, l, own) ==
    IF Owners(c, l) = {} THEN own ELSE data[Max(Owners(c, l))][l]

(* The cores whose copies rand() picks for speculation: any of them, but   *)
(* none at 0 percent and all at 100.                                       *)
Draws(sharers) ==
    {d \in SUBSET sharers :
        /\ speculation_percent = 0 => d = {}
        /\ speculation_percent = 100 => d = sharers}

(* Fault: the copies rand() picks are victimized wherever they lie.        *)
Demoted_Anywhere(a, drawn, o) ==
    IF o \in drawn THEN "VICTIMIZED" ELSE "INVALID"

(* What becomes of a valid copy when another core writes address a.        *)
Demoted(a, drawn, o) ==
    IF o \in drawn /\ check_address(a) THEN "VICTIMIZED" ELSE "INVALID"

(* Lines of cache c in the set that line l maps to, and the least recently *)
(* used of them.  A full set gives up that one to make room.               *)
SetLines(c, l) == {m \in Lines : Resident(c, m) /\ SetOf(m) = SetOf(l)}

(* Fault: the comparison of the LRU scan is the wrong way round.           *)
LRU_MostRecent(c, l) ==
    CHOOSE m \in SetLines(c, l) :
        \A n \in SetLines(c, l) : time_accessed[c][m] >= time_accessed[c][n]

LRU(c, l) ==
    CHOOSE m \in SetLines(c, l) :
        \A n \in SetLines(c, l) : time_accessed[c][m] <= time_accessed[c][n]

(* Fault: a full set still takes one more line.                            *)
Evicted_OneLate(c, l) ==
    IF Cardinality(SetLines(c, l)) <= L1_SET_ASSOCIATIVITY
    THEN {} ELSE {LRU(c, l)}

Evicted(c, l) ==
    IF Cardinality(SetLines(c, l)) < L1_SET_ASSOCIATIVITY
    THEN {} ELSE {LRU(c, l)}

-----------------------------------------------------------------------------
(* Pieces that several paths through cache_write and cache_read share.     *)

Tick ==
    /\ global_time' = global_time + 1
    /\ total_instr' = total_instr + 1

(* Every cache the line was found in gets the call's time stamp.           *)
Touch(c, l) ==
    time_accessed' =
        [o \in Cores |->
            IF o = c \/ o \in Snooped(c, l)
            THEN [time_accessed[o] EXCEPT ![l] = global_time + 1]
            ELSE time_accessed[o]]

(* Fault: the miss path stamps with the time before the call's tick.       *)
TouchInserting_BeforeTick(c, l) ==
    time_accessed' =
        [o \in Cores |->
            [m \in Lines |->
                IF m = l /\ (o = c \/ o \in Snooped(c, l))
                THEN global_time
                ELSE IF o = c /\ m \in Evicted(c, l)
                     THEN 0 ELSE time_accessed[o][m]]]

(* Touch on a miss: the new line is stamped too, and the evicted one goes. *)
TouchInserting(c, l) ==
    time_accessed' =
        [o \in Cores |->
            [m \in Lines |->
                IF m = l /\ (o = c \/ o \in Snooped(c, l))
                THEN global_time + 1
                ELSE IF o = c /\ m \in Evicted(c, l)
                     THEN 0 ELSE time_accessed[o][m]]]

(* Faults: the LLC's line is entered under the byte address; a line it     *)
(* lacks is not entered; it is written only when entered; all its words    *)
(* take the value.                                                         *)
update_llc_ByteAddress(a, v) ==
    /\ llc_lines' = llc_lines \union {a}
    /\ llc' = [llc EXCEPT ![LineOf(a)][WordOf(a)] = v]
update_llc_NoInsert(a, v) ==
    /\ llc_lines' = llc_lines
    /\ llc' = [llc EXCEPT ![LineOf(a)][WordOf(a)] = v]
update_llc_OnlyInsert(a, v) ==
    /\ llc_lines' = llc_lines \union {LineOf(a)}
    /\ llc' = IF LineOf(a) \in llc_lines THEN llc
              ELSE [llc EXCEPT ![LineOf(a)][WordOf(a)] = v]
update_llc_FillLine(a, v) ==
    /\ llc_lines' = llc_lines \union {LineOf(a)}
    /\ llc' = [llc EXCEPT ![LineOf(a)] = [w \in Words |-> v]]

(* The word goes to the LLC's line, which is entered if it is not there.   *)
update_llc(a, v) ==
    /\ llc_lines' = llc_lines \union {LineOf(a)}
    /\ llc' = [llc EXCEPT ![LineOf(a)][WordOf(a)] = v]

(* Fault: a snoop counts as a read hit of the snooped cache.               *)
CountCall_SnoopHits(c, snooped, own) ==
    cache_stats' =
        [o \in Cores |->
            IF o = c THEN own
            ELSE IF o \in snooped
                 THEN [cache_stats[o] EXCEPT !.num_access = @ + 1,
                                             !.num_reads_hits = @ + 1]
                 ELSE cache_stats[o]]

(* The caller's counters become own; each snooped cache counts an access.  *)
CountCall(c, snooped, own) ==
    cache_stats' =
        [o \in Cores |->
            IF o = c THEN own
            ELSE IF o \in snooped
                 THEN [cache_stats[o] EXCEPT !.num_access = @ + 1]
                 ELSE cache_stats[o]]

(* Fault: failed_addr_bound counts the copies inside the bound too.        *)
CountSnoops_NoElse(a, sharers, drawn, bus) ==
    stats' =
        [stats EXCEPT
            !.bus_transactions = @ + bus,
            !.total_cases = @ + Cardinality(sharers),
            !.speculate_cases = @ + Cardinality(drawn),
            !.success_addr_bound =
                @ + (IF check_address(a) THEN Cardinality(drawn) ELSE 0),
            !.failed_addr_bound = @ + Cardinality(drawn)]

(* The counters of a write that met these sharers and drew these of them.  *)
CountSnoops(a, sharers, drawn, bus) ==
    stats' =
        [stats EXCEPT
            !.bus_transactions = @ + bus,
            !.total_cases = @ + Cardinality(sharers),
            !.speculate_cases = @ + Cardinality(drawn),
            !.success_addr_bound =
                @ + (IF check_address(a) THEN Cardinality(drawn) ELSE 0),
            !.failed_addr_bound =
                @ + (IF check_address(a) THEN 0 ELSE Cardinality(drawn))]

(* Fault: the write demotes the owner and forgets the sharers.             *)
Owning_OwnersOnly(c, l, a, drawn, evicted) ==
    state' =
        [o \in Cores |->
            [m \in Lines |->
                IF m = l
                THEN IF o = c THEN "MODIFIED"
                     ELSE IF o \in Owners(c, l) THEN Demoted(a, drawn, o)
                          ELSE state[o][m]
                ELSE IF o = c /\ m \in evicted
                     THEN "ABSENT" ELSE state[o][m]]]

(* The states after a write to line l by core c.                           *)
Owning(c, l, a, drawn, evicted) ==
    state' =
        [o \in Cores |->
            [m \in Lines |->
                IF m = l
                THEN IF o = c THEN "MODIFIED"
                     ELSE IF o \in Sharers(c, l) THEN Demoted(a, drawn, o)
                          ELSE state[o][m]
                ELSE IF o = c /\ m \in evicted
                     THEN "ABSENT" ELSE state[o][m]]]

(* Fault: the reader's own copy keeps its state.                           *)
Sharing_OthersOnly(c, l) ==
    state' =
        [o \in Cores |->
            IF o \in Sharers(c, l)
            THEN [state[o] EXCEPT ![l] = "SHARED"] ELSE state[o]]

(* A read that finds the line invalid or victimized: it becomes shared,    *)
(* and so does every valid copy elsewhere.                                 *)
Sharing(c, l) ==
    state' =
        [o \in Cores |->
            IF o = c \/ o \in Sharers(c, l)
            THEN [state[o] EXCEPT ![l] = "SHARED"] ELSE state[o]]

Returns(speculated, valid, invalid) ==
    result' = [speculated |-> speculated, not_in_system |-> FALSE,
               valid_data |-> valid, invalid_data |-> invalid]

-----------------------------------------------------------------------------
(* cache_write                                                             *)

(* The line is here and MODIFIED: nobody is snooped.                       *)
WriteHitModified(c, a, v) ==
    LET l == LineOf(a) IN
    /\ state[c][l] = "MODIFIED"
    /\ Tick
    /\ data' = [data EXCEPT ![c][l][WordOf(a)] = v]
    /\ time_accessed' = [time_accessed EXCEPT ![c][l] = global_time + 1]
    /\ update_llc(a, v)
    /\ CountCall(c, {}, [cache_stats[c] EXCEPT
                            !.num_access = @ + 1,
                            !.num_writes_hits = @ + 1,
                            !.num_write_to_llc = @ + 1])
    /\ UNCHANGED <<state, stats, accuracy, result>>

(* The line is here in another state: BusRdX, upgrade to MODIFIED.         *)
WriteHitUpgrade(c, a, v) ==
    LET l == LineOf(a) IN
    /\ state[c][l] \in {"SHARED", "INVALID", "VICTIMIZED"}
    /\ Tick
    /\ data' = [data EXCEPT ![c][l] =
                  [CopiedLine(c, l, data[c][l]) EXCEPT ![WordOf(a)] = v]]
    /\ Touch(c, l)
    /\ update_llc(a, v)
    /\ CountCall(c, Snooped(c, l), [cache_stats[c] EXCEPT
                                       !.num_access = @ + 1,
                                       !.num_writes_hits = @ + 1,
                                       !.num_write_to_llc = @ + 1])
    /\ \E drawn \in Draws(Sharers(c, l)) :
          /\ Owning(c, l, a, drawn, {})
          /\ CountSnoops(a, Sharers(c, l), drawn, 1)
    /\ UNCHANGED <<accuracy, result>>

(* The line is not here: allocate it MODIFIED, zero but for the word       *)
(* written; then, in the snoop loop, an owner's line is copied over all of *)
(* it, the word just written included.                                     *)
WriteMiss(c, a, v) ==
    LET l == LineOf(a)
        new_line == [EmptyLine EXCEPT ![WordOf(a)] = v]
        evicted == Evicted(c, l)
    IN
    /\ ~Resident(c, l)
    /\ Tick
    /\ data' = [data EXCEPT ![c] =
                  [m \in Lines |->
                      IF m = l THEN CopiedLine(c, l, new_line)
                      ELSE IF m \in evicted THEN EmptyLine
                      ELSE data[c][m]]]
    /\ TouchInserting(c, l)
    /\ update_llc(a, v)
    /\ CountCall(c, Snooped(c, l), [cache_stats[c] EXCEPT
                                       !.num_access = @ + 1,
                                       !.num_write_misses = @ + 1,
                                       !.num_write_to_llc = @ + 1])
    /\ \E drawn \in Draws(Sharers(c, l)) :
          /\ Owning(c, l, a, drawn, evicted)
          /\ CountSnoops(a, Sharers(c, l), drawn, num_cores)
    /\ UNCHANGED <<accuracy, result>>

cache_write(c, a, v) ==
    \/ WriteHitModified(c, a, v)
    \/ WriteHitUpgrade(c, a, v)
    \/ WriteMiss(c, a, v)

-----------------------------------------------------------------------------
(* cache_read                                                              *)

(* A valid copy is here: its word is the answer.                           *)
ReadHit(c, a) ==
    LET l == LineOf(a) IN
    /\ state[c][l] \in ValidStates
    /\ Tick
    /\ time_accessed' = [time_accessed EXCEPT ![c][l] = global_time + 1]
    /\ CountCall(c, {}, [cache_stats[c] EXCEPT !.num_access = @ + 1,
                                               !.num_reads_hits = @ + 1])
    /\ Returns(FALSE, data[c][l][WordOf(a)], 0)
    /\ UNCHANGED <<state, data, llc_lines, llc, stats, accuracy>>

(* valid * p / 1000 bounds the difference; both zero is no difference, and *)
(* a difference from zero is infinite.                                     *)
WithinThousandths(p, valid, invalid) ==
    1000 * (IF invalid >= valid THEN invalid - valid ELSE valid - invalid)
        <= p * valid

(* The verdict and the tallies of within_threshold: whatever the tallies   *)
(* say, the verdict is true.                                               *)
within_threshold(valid, invalid) == TRUE

(* Fault: failure_array counts by the margin and not by each threshold.    *)
Tally_ByMargin(valid, invalid) ==
    LET within == [i \in Thresholds |->
                     WithinThousandths(percentage_array[i], valid, invalid)]
        accepted == WithinThousandths(margin_of_error, valid, invalid)
    IN accuracy' =
        [success_count |->
            accuracy.success_count + (IF accepted THEN 1 ELSE 0),
         rollback_count |->
            accuracy.rollback_count + (IF accepted THEN 0 ELSE 1),
         error_array |->
            [i \in Thresholds |->
               accuracy.error_array[i] + (IF within[i] THEN 1 ELSE 0)],
         failure_array |->
            [i \in Thresholds |->
               accuracy.failure_array[i] + (IF accepted THEN 0 ELSE 1)]]

Tally(valid, invalid) ==
    LET within == [i \in Thresholds |->
                     WithinThousandths(percentage_array[i], valid, invalid)]
        accepted == WithinThousandths(margin_of_error, valid, invalid)
    IN accuracy' =
        [success_count |->
            accuracy.success_count + (IF accepted THEN 1 ELSE 0),
         rollback_count |->
            accuracy.rollback_count + (IF accepted THEN 0 ELSE 1),
         error_array |->
            [i \in Thresholds |->
               accuracy.error_array[i] + (IF within[i] THEN 1 ELSE 0)],
         failure_array |->
            [i \in Thresholds |->
               accuracy.failure_array[i] + (IF within[i] THEN 0 ELSE 1)]]

(* The copy was victimized.  The valid word is the last valid copy's, or   *)
(* zero if every such copy has been evicted; the stale word is ours.       *)
ReadVictimized(c, a) ==
    LET l == LineOf(a)
        w == WordOf(a)
        valid == IF Sharers(c, l) = {} THEN 0
                 ELSE data[Max(Sharers(c, l))][l][w]
        invalid == data[c][l][w]
    IN
    /\ state[c][l] = "VICTIMIZED"
    /\ Tick
    /\ Touch(c, l)
    /\ CountCall(c, Snooped(c, l), [cache_stats[c] EXCEPT
                                       !.num_access = @ + 1,
                                       !.num_reads_hits = @ + 1])
    /\ Sharing(c, l)
    /\ data' = [data EXCEPT ![c][l] =
                  [CopiedLine(c, l, data[c][l]) EXCEPT ![w] = valid]]
    /\ IF check_address(a)
       THEN /\ Tally(valid, invalid)
            /\ IF within_threshold(valid, invalid)
               THEN /\ stats' = [stats EXCEPT !.bus_transactions = @ + 1,
                                              !.success = @ + 1]
                    /\ Returns(TRUE, valid, invalid)
               ELSE /\ stats' = [stats EXCEPT !.bus_transactions = @ + 1,
                                              !.rollback = @ + 1]
                    /\ Returns(FALSE, valid, invalid)
       ELSE /\ stats' = [stats EXCEPT !.bus_transactions = @ + 1,
                                      !.same_line = @ + 1]
            /\ Returns(FALSE, valid, invalid)
            /\ UNCHANGED accuracy
    /\ UNCHANGED <<llc_lines, llc>>

(* The copy was invalidated.  The word comes from the last valid copy, or  *)
(* from the shared cache when there is none.                               *)
ReadInvalid(c, a) ==
    LET l == LineOf(a)
        w == WordOf(a)
        fromLLC == Sharers(c, l) = {}
        valid == IF fromLLC THEN llc[l][w] ELSE data[Max(Sharers(c, l))][l][w]
        invalid == data[c][l][w]
    IN
    /\ state[c][l] = "INVALID"
    /\ Tick
    /\ Touch(c, l)
    /\ CountCall(c, Snooped(c, l),
                 [cache_stats[c] EXCEPT
                     !.num_access = @ + 1,
                     !.num_reads_hits = @ + 1,
                     !.num_read_from_llc = @ + (IF fromLLC THEN 1 ELSE 0)])
    /\ stats' = [stats EXCEPT !.bus_transactions = @ + 1]
    /\ IF fromLLC /\ l \notin llc_lines
       THEN /\ result' = [speculated |-> FALSE, not_in_system |-> TRUE,
                          valid_data |-> 0, invalid_data |-> 0]
            /\ UNCHANGED <<state, data>>
       ELSE /\ Returns(FALSE, valid, invalid)
            /\ Sharing(c, l)
            /\ data' = [data EXCEPT ![c][l] =
                         [CopiedLine(c, l, data[c][l]) EXCEPT ![w] = valid]]
    /\ UNCHANGED <<llc_lines, llc, accuracy>>

(* The line is not here but the shared cache has it: it is inserted        *)
(* SHARED, and an owner elsewhere becomes a sharer of the same words.      *)
ReadMiss(c, a) ==
    LET l == LineOf(a)
        evicted == Evicted(c, l)
    IN
    /\ ~Resident(c, l)
    /\ l \in llc_lines
    /\ Tick
    /\ TouchInserting(c, l)
    /\ CountCall(c, Snooped(c, l), [cache_stats[c] EXCEPT
                                       !.num_access = @ + 1,
                                       !.num_read_misses = @ + 1,
                                       !.num_read_from_llc = @ + 1])
    /\ stats' = [stats EXCEPT !.bus_transactions = @ + 1]
    /\ state' =
          [o \in Cores |->
              [m \in Lines |->
                  IF m = l /\ (o = c \/ o \in Owners(c, l)) THEN "SHARED"
                  ELSE IF o = c /\ m \in evicted THEN "ABSENT"
                  ELSE state[o][m]]]
    /\ data' =
          [o \in Cores |->
              [m \in Lines |->
                  IF m = l /\ (o = c \/ o \in Owners(c, l)) THEN llc[l]
                  ELSE IF o = c /\ m \in evicted THEN EmptyLine
                  ELSE data[o][m]]]
    /\ Returns(FALSE, llc[l][WordOf(a)], 0)
    /\ UNCHANGED <<llc_lines, llc, accuracy>>

(* The line is nowhere: nothing is inserted, and nobody is snooped.        *)
ReadNotInSystem(c, a) ==
    LET l == LineOf(a) IN
    /\ ~Resident(c, l)
    /\ l \notin llc_lines
    /\ Tick
    /\ CountCall(c, {}, [cache_stats[c] EXCEPT
                            !.num_access = @ + 1,
                            !.num_read_misses = @ + 1,
                            !.num_read_from_llc = @ + 1])
    /\ stats' = [stats EXCEPT !.bus_transactions = @ + 1]
    /\ result' = [speculated |-> FALSE, not_in_system |-> TRUE,
                  valid_data |-> 0, invalid_data |-> 0]
    /\ UNCHANGED <<protocolVars, accuracy>>

cache_read(c, a) ==
    \/ ReadHit(c, a)
    \/ ReadVictimized(c, a)
    \/ ReadInvalid(c, a)
    \/ ReadMiss(c, a)
    \/ ReadNotInSystem(c, a)

-----------------------------------------------------------------------------
(* The instrumented threads call in any order.                             *)
Next ==
    \E c \in Cores, a \in Addrs :
        \/ \E v \in Values : cache_write(c, a, v)
        \/ cache_read(c, a)

Spec == Init /\ [][Next]_vars
=============================================================================
