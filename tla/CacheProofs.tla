---------------------------- MODULE CacheProofs ----------------------------
(***************************************************************************)
(* What a line number stands for, and the invariants of CacheSystem, for   *)
(* every number of cores, cache geometry, set of addresses and words,      *)
(* speculation percentage and margin.                                      *)
(***************************************************************************)
EXTENDS CacheProperties, ArithmeticLemmas

-----------------------------------------------------------------------------
(* The line number that CacheSystem names a line by stands for the pair of *)
(* tag and set index that the caches look a line up by, whatever the       *)
(* number of sets.                                                         *)

(* The line number is the tag and the index put together again.            *)
LEMMA LineSplits ==
    ASSUME NEW addr \in Nat, NEW num_sets \in Nat \ {0}
    PROVE  /\ tag(addr, num_sets) \in Nat
           /\ index(addr, num_sets) \in 0 .. num_sets - 1
           /\ LineOf(addr) = num_sets * tag(addr, num_sets)
                             + index(addr, num_sets)
<1> DEFINE span == NUM_BLOCKS * num_sets
           t == addr \div span
           rest == addr % span
           k == rest \div NUM_BLOCKS
           byte == rest % NUM_BLOCKS
<1>1. NUM_BLOCKS \in Nat \ {0}
  BY LineAssumption
<1>2. span \in Nat \ {0}
  BY <1>1, SMT
<1> HIDE DEF span
<1>3. t \in Nat /\ rest \in 0 .. span - 1 /\ addr = span * t + rest
  BY <1>2, SMT
<1> HIDE DEF t, rest
<1>4. k \in Nat /\ byte \in 0 .. NUM_BLOCKS - 1 /\ rest = NUM_BLOCKS * k + byte
  BY <1>1, <1>3, SMT
<1> HIDE DEF k, byte
<1>5. k < num_sets
  <2> SUFFICES ASSUME num_sets <= k PROVE FALSE
    BY <1>4
  <2>1. NUM_BLOCKS * num_sets <= NUM_BLOCKS * k
    BY <1>1, <1>4, SMT
  <2> QED
    BY <1>1, <1>2, <1>3, <1>4, <2>1, SMT DEF span
<1>6. addr = NUM_BLOCKS * (num_sets * t + k) + byte
  BY <1>1, <1>3, <1>4, SMT DEF span
<1>7. num_sets * t + k \in Nat
  BY <1>3, <1>4, SMT
<1>8. addr \div NUM_BLOCKS = num_sets * t + k
  BY <1>1, <1>4, <1>6, <1>7, DivisionUnique
<1>9. tag(addr, num_sets) = t /\ index(addr, num_sets) = k
  BY DEF tag, index, t, k, rest, span
<1> QED
  BY <1>3, <1>4, <1>5, <1>8, <1>9 DEF LineOf

(* Two addresses have the same tag and the same set index in a cache of    *)
(* any number of sets exactly when they lie in the same line: a lookup     *)
(* that compares tags within one set neither confuses two lines nor splits *)
(* one, and L1 and LLC agree on what a line is.                            *)
THEOREM TagAndIndexNameTheLine ==
    ASSUME NEW a \in Nat, NEW b \in Nat, NEW num_sets \in Nat \ {0}
    PROVE  /\ tag(a, num_sets) = tag(b, num_sets)
           /\ index(a, num_sets) = index(b, num_sets)
           <=> LineOf(a) = LineOf(b)
<1> DEFINE T(x) == tag(x, num_sets)
           I(x) == index(x, num_sets)
<1>1. \A x \in {a, b} :
        /\ T(x) \in Nat /\ I(x) \in 0 .. num_sets - 1
        /\ LineOf(x) = num_sets * T(x) + I(x)
  BY LineSplits
<1>2. \A x \in {a, b} :
        LineOf(x) \div num_sets = T(x) /\ LineOf(x) % num_sets = I(x)
  <2> SUFFICES ASSUME NEW x \in {a, b}
               PROVE  LineOf(x) \div num_sets = T(x)
                      /\ LineOf(x) % num_sets = I(x)
    OBVIOUS
  <2>1. T(x) \in Nat /\ I(x) \in 0 .. num_sets - 1
    BY <1>1
  <2>2. LineOf(x) = num_sets * T(x) + I(x)
    BY <1>1
  <2> HIDE DEF T, I
  <2>3. /\ (num_sets * T(x) + I(x)) \div num_sets = T(x)
        /\ (num_sets * T(x) + I(x)) % num_sets = I(x)
    BY <2>1, DivisionUnique
  <2> QED
    BY <2>2, <2>3
<1> HIDE DEF T, I
<1>3. T(a) = T(b) /\ I(a) = I(b) <=> LineOf(a) = LineOf(b)
  BY <1>1, <1>2
<1> QED
  BY <1>3 DEF T, I

(* The set of a private cache that holds a line is the one that index      *)
(* computes from any address of the line.                                  *)
THEOREM SetOfLine ==
    ASSUME NEW addr \in Nat
    PROVE  index(addr, L1_NUM_SETS) = SetOf(LineOf(addr))
<1>1. L1_NUM_SETS \in Nat \ {0}
  BY SetsAssumption
<1> DEFINE t == tag(addr, L1_NUM_SETS)
           i == index(addr, L1_NUM_SETS)
<1>2. /\ t \in Nat /\ i \in 0 .. L1_NUM_SETS - 1
      /\ LineOf(addr) = L1_NUM_SETS * t + i
  BY <1>1, LineSplits
<1> HIDE DEF t, i
<1>3. LineOf(addr) % L1_NUM_SETS = i
  BY <1>1, <1>2, DivisionUnique
<1> QED
  BY <1>3 DEF SetOf, i

-----------------------------------------------------------------------------
(* Facts about the operators the controller is built from.                 *)

(* Max of a non-empty set of cores is one of them, and no less than any.   *)
LEMMA MaxOfCores ==
    ASSUME NEW S, S \subseteq Cores, S # {}
    PROVE  Max(S) \in S /\ \A y \in S : y <= Max(S)
<1> DEFINE T == {num_cores - x : x \in S}
<1>1. T \subseteq Nat /\ T # {}
  <2>1. \A x \in S : num_cores - x \in Nat
    BY CoresAssumption DEF Cores
  <2> QED
    BY <2>1
<1>2. PICK t \in T : \A y \in T : t <= y
  BY <1>1, LeastNatural
<1>3. PICK x \in S : t = num_cores - x
  BY <1>2
<1>4. \A y \in S : x >= y
  <2> SUFFICES ASSUME NEW y \in S PROVE x >= y
    OBVIOUS
  <2>1. t <= num_cores - y
    BY <1>2
  <2> QED
    BY <2>1, <1>3, CoresAssumption DEF Cores
<1>5. Max(S) \in S /\ \A y \in S : Max(S) >= y
  BY <1>3, <1>4 DEF Max
<1> QED
  BY <1>5 DEF Cores

(* An address lies in a line of the program and in a word of that line.    *)
LEMMA AddressTypes ==
    ASSUME NEW a \in Addrs
    PROVE  LineOf(a) \in Lines /\ WordOf(a) \in Words
<1>1. a \in Nat
  BY AddrsAssumption
<1>2. a % NUM_BLOCKS \in 0 .. NUM_BLOCKS - 1
  BY <1>1, LineAssumption
<1>3. \A n, m \in Nat : n % 8 = 0 /\ m < n => m \div 8 < n \div 8
  BY SMT
<1>4. (a % NUM_BLOCKS) \div 8 \in Nat
  BY <1>2, LineAssumption
<1>5. NUM_BLOCKS \in Nat /\ NUM_BLOCKS \div 8 \in Nat
  BY LineAssumption
<1>6. (a % NUM_BLOCKS) \div 8 < NUM_BLOCKS \div 8
  BY <1>2, <1>3, <1>5, LineAssumption
<1> QED
  BY <1>4, <1>5, <1>6 DEF Lines, Words, WordOf, block_index

(* Sets of cores are finite, and a draw is a set of sharers.               *)
LEMMA CoresFinite ==
    ASSUME NEW S, S \subseteq Cores
    PROVE  IsFiniteSet(S) /\ Cardinality(S) \in Nat
<1>1. IsFiniteSet(Cores)
  BY CoresAssumption, FS_Interval DEF Cores
<1> QED
  BY <1>1, FS_Subset, FS_CardinalityType

LEMMA SnoopTypes ==
    ASSUME NEW c \in Cores, NEW l \in Lines
    PROVE  /\ Owners(c, l) \subseteq Sharers(c, l)
           /\ Sharers(c, l) \subseteq Snooped(c, l)
           /\ Snooped(c, l) \subseteq Cores \ {c}
BY DEF Owners, Sharers, Snooped, ValidStates

LEMMA CopiedLineType ==
    ASSUME TypeOK, NEW c \in Cores, NEW l \in Lines,
           NEW own \in [Words -> Data]
    PROVE  CopiedLine(c, l, own) \in [Words -> Data]
<1>1. CASE Owners(c, l) = {}
  BY <1>1 DEF CopiedLine
<1>2. CASE Owners(c, l) # {}
  <2>1. Max(Owners(c, l)) \in Cores
    BY <1>2, SnoopTypes, MaxOfCores
  <2> QED
    BY <1>2, <2>1 DEF CopiedLine, TypeOK
<1> QED
  BY <1>1, <1>2

LEMMA EmptyLineType == EmptyLine \in [Words -> Data]
BY DEF EmptyLine, Data

(* The word a refill takes from the last sharer.                           *)
LEMMA SharedWordType ==
    ASSUME TypeOK, NEW c \in Cores, NEW l \in Lines, NEW w \in Words,
           Sharers(c, l) # {}
    PROVE  data[Max(Sharers(c, l))][l][w] \in Data
<1>1. Max(Sharers(c, l)) \in Cores
  BY SnoopTypes, MaxOfCores
<1> QED
  BY <1>1 DEF TypeOK

-----------------------------------------------------------------------------
(* Types: what each shared piece of a call leaves in the state.            *)

LEMMA TickType ==
    ASSUME TypeOK, Tick
    PROVE  global_time' \in Nat /\ total_instr' \in Nat
BY DEF TypeOK, Tick

LEMMA TouchType ==
    ASSUME TypeOK, NEW c \in Cores, NEW l \in Lines,
           Touch(c, l) \/ TouchInserting(c, l)
    PROVE  time_accessed' \in [Cores -> [Lines -> Nat]]
<1>1. CASE Touch(c, l)
  BY <1>1 DEF TypeOK, Touch
<1>2. CASE TouchInserting(c, l)
  BY <1>2 DEF TypeOK, TouchInserting
<1> QED
  BY <1>1, <1>2

LEMMA UpdateLLCType ==
    ASSUME TypeOK, NEW a \in Addrs, NEW v \in Values, update_llc(a, v)
    PROVE  /\ llc_lines' \subseteq Lines
           /\ llc' \in [Lines -> [Words -> Data]]
BY AddressTypes DEF TypeOK, update_llc, Data

LEMMA CountCallType ==
    ASSUME TypeOK, NEW c \in Cores, NEW snooped, NEW own \in Cache_stat,
           CountCall(c, snooped, own)
    PROVE  cache_stats' \in [Cores -> Cache_stat]
<1>1. \A s \in Cache_stat : s.num_access + 1 \in Nat
  BY DEF Cache_stat
<1>2. \A s \in Cache_stat : [s EXCEPT !.num_access = @ + 1] \in Cache_stat
  BY <1>1, Zenon DEF Cache_stat
<1> QED
  BY <1>2 DEF TypeOK, CountCall

LEMMA CountSnoopsType ==
    ASSUME TypeOK, NEW a, NEW sharers \in SUBSET Cores,
           NEW drawn \in Draws(sharers), NEW bus \in Nat,
           CountSnoops(a, sharers, drawn, bus)
    PROVE  stats' \in System_stats
<1>1. Cardinality(sharers) \in Nat /\ Cardinality(drawn) \in Nat
  BY CoresFinite DEF Draws
<1>2. /\ (IF check_address(a) THEN Cardinality(drawn) ELSE 0) \in Nat
      /\ (IF check_address(a) THEN 0 ELSE Cardinality(drawn)) \in Nat
  BY <1>1
<1>3. stats \in System_stats
  BY DEF TypeOK
<1>4. \A s \in System_stats, b, t, d, x, y \in Nat :
        [s EXCEPT !.bus_transactions = @ + b,
                  !.total_cases = @ + t,
                  !.speculate_cases = @ + d,
                  !.success_addr_bound = @ + x,
                  !.failed_addr_bound = @ + y] \in System_stats
  <2>1. \A s \in System_stats, n \in Nat :
          /\ s.bus_transactions + n \in Nat
          /\ s.total_cases + n \in Nat
          /\ s.speculate_cases + n \in Nat
          /\ s.success_addr_bound + n \in Nat
          /\ s.failed_addr_bound + n \in Nat
    BY DEF System_stats
  <2> QED
    BY <2>1, Zenon DEF System_stats
<1> QED
  BY <1>1, <1>2, <1>3, <1>4 DEF CountSnoops

LEMMA OwningType ==
    ASSUME TypeOK, NEW c \in Cores, NEW l \in Lines, NEW a,
           NEW drawn, NEW evicted, Owning(c, l, a, drawn, evicted)
    PROVE  state' \in [Cores -> [Lines -> CacheStates \union {"ABSENT"}]]
BY DEF TypeOK, Owning, Demoted, CacheStates, ValidStates

LEMMA SharingType ==
    ASSUME TypeOK, NEW c \in Cores, NEW l \in Lines, Sharing(c, l)
    PROVE  state' \in [Cores -> [Lines -> CacheStates \union {"ABSENT"}]]
BY DEF TypeOK, Sharing, CacheStates, ValidStates

LEMMA ReturnsType ==
    ASSUME NEW spec \in BOOLEAN, NEW valid \in Data, NEW invalid \in Data,
           Returns(spec, valid, invalid)
    PROVE  result' \in Read_tuple
BY DEF Returns, Read_tuple

LEMMA TallyType ==
    ASSUME TypeOK, NEW valid, NEW invalid, Tally(valid, invalid)
    PROVE  accuracy' \in Accuracy
BY DEF TypeOK, Tally, Accuracy

(* The caller's own counters after each kind of call, and the system's     *)
(* after each kind of read.                                                *)
LEMMA OwnCounters ==
    ASSUME NEW s \in Cache_stat
    PROVE  /\ [s EXCEPT !.num_access = @ + 1, !.num_writes_hits = @ + 1,
                        !.num_write_to_llc = @ + 1] \in Cache_stat
           /\ [s EXCEPT !.num_access = @ + 1, !.num_write_misses = @ + 1,
                        !.num_write_to_llc = @ + 1] \in Cache_stat
           /\ [s EXCEPT !.num_access = @ + 1, !.num_reads_hits = @ + 1]
                \in Cache_stat
           /\ \A fromLLC \in BOOLEAN :
                [s EXCEPT !.num_access = @ + 1, !.num_reads_hits = @ + 1,
                          !.num_read_from_llc = @ + (IF fromLLC THEN 1 ELSE 0)]
                  \in Cache_stat
           /\ [s EXCEPT !.num_access = @ + 1, !.num_read_misses = @ + 1,
                        !.num_read_from_llc = @ + 1] \in Cache_stat
<1>1. /\ s.num_access + 1 \in Nat /\ s.num_reads_hits + 1 \in Nat
      /\ s.num_writes_hits + 1 \in Nat /\ s.num_read_misses + 1 \in Nat
      /\ s.num_write_misses + 1 \in Nat /\ s.num_read_from_llc + 1 \in Nat
      /\ s.num_write_to_llc + 1 \in Nat
      /\ \A b \in BOOLEAN :
            s.num_read_from_llc + (IF b THEN 1 ELSE 0) \in Nat
  BY DEF Cache_stat
<1> QED
  BY <1>1, Zenon DEF Cache_stat

LEMMA ReadCounters ==
    ASSUME NEW s \in System_stats
    PROVE  /\ [s EXCEPT !.bus_transactions = @ + 1] \in System_stats
           /\ [s EXCEPT !.bus_transactions = @ + 1, !.success = @ + 1]
                \in System_stats
           /\ [s EXCEPT !.bus_transactions = @ + 1, !.rollback = @ + 1]
                \in System_stats
           /\ [s EXCEPT !.bus_transactions = @ + 1, !.same_line = @ + 1]
                \in System_stats
<1>1. /\ s.bus_transactions + 1 \in Nat /\ s.success + 1 \in Nat
      /\ s.rollback + 1 \in Nat /\ s.same_line + 1 \in Nat
  BY DEF System_stats
<1> QED
  BY <1>1, Zenon DEF System_stats

LEMMA WriteTypes ==
    ASSUME TypeOK, NEW c \in Cores, NEW a \in Addrs, NEW v \in Values,
           cache_write(c, a, v)
    PROVE  TypeOK'
<1> DEFINE l == LineOf(a)
           w == WordOf(a)
<1>1. l \in Lines /\ w \in Words /\ v \in Data
  BY AddressTypes DEF Data
<1>2. cache_stats[c] \in Cache_stat
  BY DEF TypeOK
<1>3. Sharers(c, l) \in SUBSET Cores
  BY <1>1, SnoopTypes
<1>4. CASE WriteHitModified(c, a, v)
  <2>1. global_time' \in Nat /\ total_instr' \in Nat
    BY <1>4, TickType DEF WriteHitModified
  <2>2. data' \in [Cores -> [Lines -> [Words -> Data]]]
    BY <1>1, <1>4 DEF WriteHitModified, TypeOK
  <2>3. time_accessed' \in [Cores -> [Lines -> Nat]]
    BY <1>1, <1>4 DEF WriteHitModified, TypeOK
  <2>4. llc_lines' \subseteq Lines /\ llc' \in [Lines -> [Words -> Data]]
    BY <1>4, UpdateLLCType DEF WriteHitModified
  <2>5. cache_stats' \in [Cores -> Cache_stat]
    BY <1>2, <1>4, OwnCounters, CountCallType DEF WriteHitModified
  <2> QED
    BY <1>4, <2>1, <2>2, <2>3, <2>4, <2>5 DEF WriteHitModified, TypeOK
<1>5. CASE WriteHitUpgrade(c, a, v)
  <2>1. global_time' \in Nat /\ total_instr' \in Nat
    BY <1>5, TickType DEF WriteHitUpgrade
  <2>2. data' \in [Cores -> [Lines -> [Words -> Data]]]
    <3>1. CopiedLine(c, l, data[c][l]) \in [Words -> Data]
      BY <1>1, CopiedLineType DEF TypeOK
    <3> QED
      BY <1>1, <1>5, <3>1 DEF WriteHitUpgrade, TypeOK
  <2>3. time_accessed' \in [Cores -> [Lines -> Nat]]
    BY <1>1, <1>5, TouchType DEF WriteHitUpgrade
  <2>4. llc_lines' \subseteq Lines /\ llc' \in [Lines -> [Words -> Data]]
    BY <1>5, UpdateLLCType DEF WriteHitUpgrade
  <2>5. cache_stats' \in [Cores -> Cache_stat]
    BY <1>2, <1>5, OwnCounters, CountCallType DEF WriteHitUpgrade
  <2>6. PICK drawn \in Draws(Sharers(c, l)) :
            /\ Owning(c, l, a, drawn, {})
            /\ CountSnoops(a, Sharers(c, l), drawn, 1)
    BY <1>5 DEF WriteHitUpgrade
  <2>7. state' \in [Cores -> [Lines -> CacheStates \union {"ABSENT"}]]
    BY <1>1, <2>6, OwningType
  <2>8. stats' \in System_stats
    BY <1>3, <2>6, CountSnoopsType
  <2> QED
    BY <1>5, <2>1, <2>2, <2>3, <2>4, <2>5, <2>7, <2>8
       DEF WriteHitUpgrade, TypeOK
<1>6. CASE WriteMiss(c, a, v)
  <2>1. global_time' \in Nat /\ total_instr' \in Nat
    BY <1>6, TickType DEF WriteMiss
  <2>2. data' \in [Cores -> [Lines -> [Words -> Data]]]
    <3>1. [EmptyLine EXCEPT ![w] = v] \in [Words -> Data]
      BY <1>1, EmptyLineType
    <3>2. CopiedLine(c, l, [EmptyLine EXCEPT ![w] = v]) \in [Words -> Data]
      BY <1>1, <3>1, CopiedLineType
    <3> QED
      BY <1>1, <1>6, <3>2, EmptyLineType DEF WriteMiss, TypeOK
  <2>3. time_accessed' \in [Cores -> [Lines -> Nat]]
    BY <1>1, <1>6, TouchType DEF WriteMiss
  <2>4. llc_lines' \subseteq Lines /\ llc' \in [Lines -> [Words -> Data]]
    BY <1>6, UpdateLLCType DEF WriteMiss
  <2>5. cache_stats' \in [Cores -> Cache_stat]
    BY <1>2, <1>6, OwnCounters, CountCallType DEF WriteMiss
  <2>6. PICK drawn \in Draws(Sharers(c, l)) :
            /\ Owning(c, l, a, drawn, Evicted(c, l))
            /\ CountSnoops(a, Sharers(c, l), drawn, num_cores)
    BY <1>6 DEF WriteMiss
  <2>7. state' \in [Cores -> [Lines -> CacheStates \union {"ABSENT"}]]
    BY <1>1, <2>6, OwningType
  <2>8. stats' \in System_stats
    BY <1>3, <2>6, CountSnoopsType, CoresAssumption
  <2> QED
    BY <1>6, <2>1, <2>2, <2>3, <2>4, <2>5, <2>7, <2>8 DEF WriteMiss, TypeOK
<1> QED
  BY <1>4, <1>5, <1>6 DEF cache_write

LEMMA ReadTypes ==
    ASSUME TypeOK, NEW c \in Cores, NEW a \in Addrs, cache_read(c, a)
    PROVE  TypeOK'
<1> DEFINE l == LineOf(a)
           w == WordOf(a)
           own == data[c][l][w]
           shared == data[Max(Sharers(c, l))][l][w]
<1>1. l \in Lines /\ w \in Words /\ 0 \in Data
  BY AddressTypes DEF Data
<1>2. cache_stats[c] \in Cache_stat /\ stats \in System_stats
  BY DEF TypeOK
<1>3. own \in Data /\ (Sharers(c, l) # {} => shared \in Data)
  BY <1>1, SharedWordType DEF TypeOK
<1>4. CopiedLine(c, l, data[c][l]) \in [Words -> Data]
  BY <1>1, CopiedLineType DEF TypeOK
<1>5. CASE ReadHit(c, a)
  <2>1. global_time' \in Nat /\ total_instr' \in Nat
    BY <1>5, TickType DEF ReadHit
  <2>2. time_accessed' \in [Cores -> [Lines -> Nat]]
    BY <1>1, <1>5 DEF ReadHit, TypeOK
  <2>3. cache_stats' \in [Cores -> Cache_stat]
    BY <1>2, <1>5, OwnCounters, CountCallType DEF ReadHit
  <2>4. result' \in Read_tuple
    BY <1>1, <1>3, <1>5, ReturnsType DEF ReadHit
  <2> QED
    BY <1>5, <2>1, <2>2, <2>3, <2>4 DEF ReadHit, TypeOK
<1>6. CASE ReadVictimized(c, a)
  <2> DEFINE valid == IF Sharers(c, l) = {} THEN 0 ELSE shared
  <2>1. global_time' \in Nat /\ total_instr' \in Nat
    BY <1>6, TickType DEF ReadVictimized
  <2>2. time_accessed' \in [Cores -> [Lines -> Nat]]
    BY <1>1, <1>6, TouchType DEF ReadVictimized
  <2>3. cache_stats' \in [Cores -> Cache_stat]
    BY <1>2, <1>6, OwnCounters, CountCallType DEF ReadVictimized
  <2>4. state' \in [Cores -> [Lines -> CacheStates \union {"ABSENT"}]]
    BY <1>1, <1>6, SharingType DEF ReadVictimized
  <2>5. valid \in Data
    BY <1>1, <1>3
  <2>6. data' \in [Cores -> [Lines -> [Words -> Data]]]
    <3>1. data' = [data EXCEPT ![c][l] =
                     [CopiedLine(c, l, data[c][l]) EXCEPT ![w] = valid]]
      BY <1>6 DEF ReadVictimized
    <3> HIDE DEF valid
    <3> QED
      BY <1>1, <1>4, <2>5, <3>1 DEF TypeOK
  <2>7. stats' \in System_stats
    <3>1. \/ stats' = [stats EXCEPT !.bus_transactions = @ + 1,
                                    !.success = @ + 1]
          \/ stats' = [stats EXCEPT !.bus_transactions = @ + 1,
                                    !.rollback = @ + 1]
          \/ stats' = [stats EXCEPT !.bus_transactions = @ + 1,
                                    !.same_line = @ + 1]
      BY <1>6, Zenon DEF ReadVictimized
    <3> QED
      BY <1>2, <3>1, ReadCounters
  <2>8. result' \in Read_tuple
    <3>1. \E spec \in BOOLEAN : Returns(spec, valid, own)
      BY <1>6, Zenon DEF ReadVictimized
    <3> QED
      BY <1>3, <2>5, <3>1, ReturnsType
  <2>9. accuracy' \in Accuracy
    <3>1. Tally(valid, own) \/ UNCHANGED accuracy
      BY <1>6, Zenon DEF ReadVictimized
    <3> QED
      BY <3>1, TallyType DEF TypeOK
  <2> QED
    BY <1>6, <2>1, <2>2, <2>3, <2>4, <2>6, <2>7, <2>8, <2>9
       DEF ReadVictimized, TypeOK
<1>7. CASE ReadInvalid(c, a)
  <2> DEFINE fromLLC == Sharers(c, l) = {}
             valid == IF fromLLC THEN llc[l][w] ELSE shared
  <2>1. global_time' \in Nat /\ total_instr' \in Nat
    BY <1>7, TickType DEF ReadInvalid
  <2>2. time_accessed' \in [Cores -> [Lines -> Nat]]
    BY <1>1, <1>7, TouchType DEF ReadInvalid
  <2>3. cache_stats' \in [Cores -> Cache_stat]
    <3>1. fromLLC \in BOOLEAN
      OBVIOUS
    <3>2. CountCall(c, Snooped(c, l),
                    [cache_stats[c] EXCEPT
                        !.num_access = @ + 1,
                        !.num_reads_hits = @ + 1,
                        !.num_read_from_llc = @ + (IF fromLLC THEN 1 ELSE 0)])
      BY <1>7 DEF ReadInvalid
    <3> HIDE DEF fromLLC
    <3> QED
      BY <1>2, <3>1, <3>2, OwnCounters, CountCallType
  <2>4. valid \in Data
    BY <1>1, <1>3 DEF TypeOK
  <2>5. \/ /\ UNCHANGED <<state, data>>
           /\ result' = [speculated |-> FALSE, not_in_system |-> TRUE,
                         valid_data |-> 0, invalid_data |-> 0]
        \/ /\ Returns(FALSE, valid, own)
           /\ Sharing(c, l)
           /\ data' = [data EXCEPT ![c][l] =
                         [CopiedLine(c, l, data[c][l]) EXCEPT ![w] = valid]]
    BY <1>7, Zenon DEF ReadInvalid
  <2> HIDE DEF valid
  <2>6. state' \in [Cores -> [Lines -> CacheStates \union {"ABSENT"}]]
    BY <1>1, <2>5, SharingType DEF TypeOK
  <2>7. data' \in [Cores -> [Lines -> [Words -> Data]]]
    <3> DEFINE refilled == [CopiedLine(c, l, data[c][l]) EXCEPT ![w] = valid]
    <3>1. refilled \in [Words -> Data]
      BY <1>1, <1>4, <2>4
    <3>2. data' = data \/ data' = [data EXCEPT ![c][l] = refilled]
      BY <2>5
    <3> HIDE DEF refilled
    <3>3. CASE data' = data
      BY <3>3 DEF TypeOK
    <3>4. CASE data' = [data EXCEPT ![c][l] = refilled]
      BY <1>1, <3>1, <3>4 DEF TypeOK
    <3> QED
      BY <3>2, <3>3, <3>4
  <2>8. result' \in Read_tuple
    <3>1. [speculated |-> FALSE, not_in_system |-> TRUE,
           valid_data |-> 0, invalid_data |-> 0] \in Read_tuple
      BY <1>1 DEF Read_tuple
    <3> QED
      BY <1>3, <2>4, <2>5, <3>1, ReturnsType
  <2>9. stats' \in System_stats
    BY <1>2, <1>7, ReadCounters DEF ReadInvalid
  <2> QED
    BY <1>7, <2>1, <2>2, <2>3, <2>6, <2>7, <2>8, <2>9
       DEF ReadInvalid, TypeOK
<1>8. CASE ReadMiss(c, a)
  <2>1. global_time' \in Nat /\ total_instr' \in Nat
    BY <1>8, TickType DEF ReadMiss
  <2>2. time_accessed' \in [Cores -> [Lines -> Nat]]
    BY <1>1, <1>8, TouchType DEF ReadMiss
  <2>3. cache_stats' \in [Cores -> Cache_stat]
    BY <1>2, <1>8, OwnCounters, CountCallType DEF ReadMiss
  <2>4. state' \in [Cores -> [Lines -> CacheStates \union {"ABSENT"}]]
    BY <1>8 DEF ReadMiss, TypeOK, CacheStates, ValidStates
  <2>5. data' \in [Cores -> [Lines -> [Words -> Data]]]
    <3> DEFINE new(o, m) ==
                  IF m = l /\ (o = c \/ o \in Owners(c, l)) THEN llc[l]
                  ELSE IF o = c /\ m \in Evicted(c, l) THEN EmptyLine
                  ELSE data[o][m]
    <3>1. data' = [o \in Cores |-> [m \in Lines |-> new(o, m)]]
      BY <1>8 DEF ReadMiss
    <3>2. \A o \in Cores, m \in Lines : new(o, m) \in [Words -> Data]
      BY <1>1, EmptyLineType DEF TypeOK
    <3> HIDE DEF new
    <3> QED
      BY <3>1, <3>2
  <2>6. stats' \in System_stats
    BY <1>2, <1>8, ReadCounters DEF ReadMiss
  <2>7. result' \in Read_tuple
    BY <1>1, <1>8, ReturnsType DEF ReadMiss, TypeOK
  <2> QED
    BY <1>8, <2>1, <2>2, <2>3, <2>4, <2>5, <2>6, <2>7 DEF ReadMiss, TypeOK
<1>9. CASE ReadNotInSystem(c, a)
  <2>1. global_time' \in Nat /\ total_instr' \in Nat
    BY <1>9, TickType DEF ReadNotInSystem
  <2>2. cache_stats' \in [Cores -> Cache_stat]
    BY <1>2, <1>9, OwnCounters, CountCallType DEF ReadNotInSystem
  <2>3. stats' \in System_stats
    BY <1>2, <1>9, ReadCounters DEF ReadNotInSystem
  <2>4. result' \in Read_tuple
    BY <1>1, <1>9 DEF ReadNotInSystem, Read_tuple
  <2> QED
    BY <1>9, <2>1, <2>2, <2>3, <2>4 DEF ReadNotInSystem, protocolVars, TypeOK
<1> QED
  BY <1>5, <1>6, <1>7, <1>8, <1>9 DEF cache_read

LEMMA InitTypes ==
    ASSUME Init
    PROVE  TypeOK
BY EmptyLineType DEF Init, TypeOK, Data, CacheStates, ValidStates,
   System_stats, Accuracy, Cache_stat, Read_tuple

(* Every variable keeps its type: in particular no refill or copy takes a  *)
(* word from outside a cache, and no counter goes negative.                *)
THEOREM TypeCorrect == Spec => []TypeOK
<1>1. Init => TypeOK
  BY InitTypes
<1>2. TypeOK /\ [Next]_vars => TypeOK'
  <2> SUFFICES ASSUME TypeOK, [Next]_vars PROVE TypeOK'
    OBVIOUS
  <2>1. CASE Next
    BY <2>1, WriteTypes, ReadTypes DEF Next
  <2>2. CASE UNCHANGED vars
    BY <2>2 DEF vars, TypeOK
  <2> QED
    BY <2>1, <2>2
<1> QED
  BY <1>1, <1>2, PTL DEF Spec

-----------------------------------------------------------------------------
(* Coherence states.  Whatever path a call takes, it leaves the states     *)
(* alone, or makes the caller the owner, or shares the line.               *)

LEMMA OwningStates ==
    ASSUME TypeOK, NEW c \in Cores, NEW l \in Lines, NEW a,
           NEW drawn, NEW evicted, Owning(c, l, a, drawn, evicted),
           NEW o \in Cores, NEW m \in Lines
    PROVE  /\ m = l /\ o = c => state'[o][m] = "MODIFIED"
           /\ m = l /\ o # c /\ o \in Sharers(c, l) =>
                \/ state'[o][m] = "INVALID"
                \/ state'[o][m] = "VICTIMIZED" /\ check_address(a)
           /\ m = l /\ o # c /\ o \notin Sharers(c, l) =>
                /\ state'[o][m] = state[o][m]
                /\ state[o][m] \notin ValidStates
           /\ m # l => state'[o][m] \in {state[o][m], "ABSENT"}
<1>1. state'[o][m] = IF m = l
                     THEN IF o = c THEN "MODIFIED"
                          ELSE IF o \in Sharers(c, l) THEN Demoted(a, drawn, o)
                               ELSE state[o][m]
                     ELSE IF o = c /\ m \in evicted
                          THEN "ABSENT" ELSE state[o][m]
  BY DEF Owning
<1>2. \/ Demoted(a, drawn, o) = "INVALID"
      \/ Demoted(a, drawn, o) = "VICTIMIZED" /\ check_address(a)
  BY DEF Demoted
<1>3. o # c /\ o \notin Sharers(c, l) => state[o][l] \notin ValidStates
  BY DEF Sharers, Snooped, Resident, ValidStates
<1> QED
  BY <1>1, <1>2, <1>3

LEMMA SharingStates ==
    ASSUME TypeOK, NEW c \in Cores, NEW l \in Lines, Sharing(c, l),
           NEW o \in Cores, NEW m \in Lines
    PROVE  /\ m = l /\ (o = c \/ o \in Sharers(c, l)) =>
                state'[o][m] = "SHARED"
           /\ m = l /\ o # c /\ o \notin Sharers(c, l) =>
                /\ state'[o][m] = state[o][m]
                /\ state[o][m] \notin ValidStates
           /\ m # l => state'[o][m] = state[o][m]
<1>1. state'[o] = IF o = c \/ o \in Sharers(c, l)
                  THEN [state[o] EXCEPT ![l] = "SHARED"] ELSE state[o]
  BY DEF Sharing
<1>2. o # c /\ o \notin Sharers(c, l) => state[o][l] \notin ValidStates
  BY DEF Sharers, Snooped, Resident, ValidStates
<1>3. state[o] \in [Lines -> CacheStates \union {"ABSENT"}]
  BY DEF TypeOK
<1> QED
  BY <1>1, <1>2, <1>3

LEMMA MissStates ==
    ASSUME TypeOK, NEW c \in Cores, NEW a \in Addrs, ReadMiss(c, a),
           NEW o \in Cores, NEW m \in Lines
    PROVE  LET l == LineOf(a) IN
           /\ l \in llc_lines /\ llc_lines' = llc_lines
           /\ m = l /\ (o = c \/ o \in Owners(c, l)) =>
                state'[o][m] = "SHARED"
           /\ m = l /\ o # c /\ o \notin Owners(c, l) =>
                /\ state'[o][m] = state[o][m]
                /\ state[o][m] # "MODIFIED"
           /\ m # l => state'[o][m] \in {state[o][m], "ABSENT"}
<1> DEFINE l == LineOf(a)
<1>1. state'[o][m] = IF m = l /\ (o = c \/ o \in Owners(c, l)) THEN "SHARED"
                     ELSE IF o = c /\ m \in Evicted(c, l) THEN "ABSENT"
                     ELSE state[o][m]
  BY DEF ReadMiss
<1>2. l \in llc_lines /\ llc_lines' = llc_lines
  BY DEF ReadMiss
<1>3. o # c /\ o \notin Owners(c, l) => state[o][l] # "MODIFIED"
  BY DEF Owners, Snooped, Resident
<1> QED
  BY <1>1, <1>2, <1>3

LEMMA WriteStates ==
    ASSUME NEW c \in Cores, NEW a \in Addrs, NEW v \in Values,
           cache_write(c, a, v)
    PROVE  /\ llc_lines' = llc_lines \union {LineOf(a)}
           /\ \/ state' = state
              \/ \E drawn, evicted : Owning(c, LineOf(a), a, drawn, evicted)
BY DEF cache_write, WriteHitModified, WriteHitUpgrade, WriteMiss, update_llc

LEMMA ReadStates ==
    ASSUME NEW c \in Cores, NEW a \in Addrs, cache_read(c, a)
    PROVE  \/ state' = state /\ llc_lines' = llc_lines
           \/ /\ Sharing(c, LineOf(a)) /\ Resident(c, LineOf(a))
              /\ llc_lines' = llc_lines
           \/ ReadMiss(c, a)
<1>1. CASE ReadHit(c, a)
  BY <1>1 DEF ReadHit
<1>2. CASE ReadVictimized(c, a)
  BY <1>2 DEF ReadVictimized, Resident
<1>3. CASE ReadInvalid(c, a)
  <2>1. Resident(c, LineOf(a)) /\ llc_lines' = llc_lines
    BY <1>3 DEF ReadInvalid, Resident
  <2>2. state' = state \/ Sharing(c, LineOf(a))
    BY <1>3, Zenon DEF ReadInvalid
  <2> QED
    BY <2>1, <2>2
<1>4. CASE ReadNotInSystem(c, a)
  BY <1>4 DEF ReadNotInSystem, protocolVars
<1> QED
  BY <1>1, <1>2, <1>3, <1>4 DEF cache_read

(* The three state invariants are inductive together with the types.       *)
StateInv ==
    /\ TypeOK
    /\ SingleWriter
    /\ Inclusion
    /\ VictimizedIsApproximable

LEMMA SingleWriterMeans ==
    SingleWriter <=>
        \A c, o \in Cores, l \in Lines :
            c # o /\ state[c][l] = "MODIFIED" => state[o][l] \notin ValidStates
BY DEF SingleWriter, Sharers, Snooped, Resident, ValidStates

LEMMA WriteKeepsStateInv ==
    ASSUME StateInv, NEW c \in Cores, NEW a \in Addrs, NEW v \in Values,
           cache_write(c, a, v)
    PROVE  SingleWriter' /\ Inclusion' /\ VictimizedIsApproximable'
<1> DEFINE l == LineOf(a)
<1>1. l \in Lines /\ llc_lines' = llc_lines \union {l} /\ TypeOK
  BY AddressTypes, WriteStates DEF StateInv
<1>2. CASE state' = state
  BY <1>1, <1>2 DEF StateInv, SingleWriter, Inclusion,
     VictimizedIsApproximable, Sharers, Snooped, Resident
<1>3. ASSUME NEW drawn, NEW evicted, Owning(c, l, a, drawn, evicted)
      PROVE  SingleWriter' /\ Inclusion' /\ VictimizedIsApproximable'
  <2> DEFINE Effect(o, m) ==
        /\ m = l /\ o = c => state'[o][m] = "MODIFIED"
        /\ m = l /\ o # c => \/ state'[o][m] = "INVALID" /\ Resident(o, m)
                             \/ /\ state'[o][m] = "VICTIMIZED"
                                /\ check_address(a) /\ Resident(o, m)
                             \/ /\ state'[o][m] = state[o][m]
                                /\ state[o][m] \notin ValidStates
        /\ m # l => state'[o][m] \in {state[o][m], "ABSENT"}
  <2>1. \A o \in Cores, m \in Lines : Effect(o, m)
    <3> SUFFICES ASSUME NEW o \in Cores, NEW m \in Lines PROVE Effect(o, m)
      OBVIOUS
    <3>1. o \in Sharers(c, l) => Resident(o, l)
      BY DEF Sharers, Snooped
    <3> QED
      BY <1>1, <1>3, <3>1, OwningStates
  <2>2. SingleWriter'
    <3> SUFFICES ASSUME NEW x \in Cores, NEW o \in Cores, NEW m \in Lines,
                        x # o, state'[x][m] = "MODIFIED"
                 PROVE  state'[o][m] \notin ValidStates
      BY DEF SingleWriter, Sharers, Snooped, Resident, ValidStates
    <3>1. CASE m = l
      BY <2>1, <3>1 DEF ValidStates
    <3>2. CASE m # l
      <4>1. state[x][m] = "MODIFIED"
        BY <2>1, <3>2
      <4>2. state[o][m] \notin ValidStates
        BY <4>1, SingleWriterMeans DEF StateInv
      <4> QED
        BY <2>1, <3>2, <4>2 DEF ValidStates
    <3> QED
      BY <3>1, <3>2
  <2>3. Inclusion'
    BY <1>1, <2>1 DEF StateInv, Inclusion, Resident
  <2>4. VictimizedIsApproximable'
    <3> SUFFICES ASSUME NEW o \in Cores, NEW m \in Lines,
                        state'[o][m] = "VICTIMIZED"
                 PROVE  \E b \in Addrs : LineOf(b) = m /\ check_address(b)
      BY DEF VictimizedIsApproximable
    <3>1. state[o][m] = "VICTIMIZED" \/ (m = l /\ check_address(a))
      BY <2>1
    <3> QED
      BY <3>1 DEF StateInv, VictimizedIsApproximable
  <2> QED
    BY <2>2, <2>3, <2>4
<1> QED
  BY <1>2, <1>3, WriteStates

LEMMA ReadKeepsStateInv ==
    ASSUME StateInv, NEW c \in Cores, NEW a \in Addrs, cache_read(c, a)
    PROVE  SingleWriter' /\ Inclusion' /\ VictimizedIsApproximable'
<1> DEFINE l == LineOf(a)
<1>1. l \in Lines /\ TypeOK
  BY AddressTypes DEF StateInv
<1>2. CASE state' = state /\ llc_lines' = llc_lines
  BY <1>1, <1>2 DEF StateInv, SingleWriter, Inclusion,
     VictimizedIsApproximable, Sharers, Snooped, Resident
<1>3. ASSUME llc_lines' = llc_lines, l \in llc_lines,
             \A o \in Cores :
                \/ state'[o][l] = "SHARED"
                \/ /\ state'[o][l] = state[o][l]
                   /\ state[o][l] # "MODIFIED",
             \A o \in Cores, m \in Lines :
                m # l => state'[o][m] \in {state[o][m], "ABSENT"}
      PROVE  SingleWriter' /\ Inclusion' /\ VictimizedIsApproximable'
  <2>1. SingleWriter'
    <3> SUFFICES ASSUME NEW x \in Cores, NEW o \in Cores, NEW m \in Lines,
                        x # o, state'[x][m] = "MODIFIED"
                 PROVE  state'[o][m] \notin ValidStates
      BY DEF SingleWriter, Sharers, Snooped, Resident, ValidStates
    <3>1. m # l /\ state[x][m] = "MODIFIED"
      BY <1>1, <1>3
    <3>2. state[o][m] \notin ValidStates
      BY <3>1, SingleWriterMeans DEF StateInv
    <3> QED
      BY <1>3, <3>1, <3>2 DEF ValidStates
  <2>2. Inclusion'
    BY <1>3 DEF StateInv, Inclusion, Resident
  <2>3. VictimizedIsApproximable'
    BY <1>3 DEF StateInv, VictimizedIsApproximable, check_address
  <2> QED
    BY <2>1, <2>2, <2>3
<1>4. CASE Sharing(c, l) /\ Resident(c, l) /\ llc_lines' = llc_lines
  <2>1. l \in llc_lines
    BY <1>1, <1>4 DEF StateInv, Inclusion
  <2>2. \A o \in Cores : \/ state'[o][l] = "SHARED"
                         \/ /\ state'[o][l] = state[o][l]
                            /\ state[o][l] # "MODIFIED"
    BY <1>1, <1>4, SharingStates DEF ValidStates
  <2>3. \A o \in Cores, m \in Lines :
            m # l => state'[o][m] \in {state[o][m], "ABSENT"}
    BY <1>1, <1>4, SharingStates
  <2> QED
    BY <1>3, <1>4, <2>1, <2>2, <2>3
<1>5. CASE ReadMiss(c, a)
  <2>1. l \in llc_lines /\ llc_lines' = llc_lines
    BY <1>1, <1>5, MissStates
  <2>2. \A o \in Cores : \/ state'[o][l] = "SHARED"
                         \/ /\ state'[o][l] = state[o][l]
                            /\ state[o][l] # "MODIFIED"
    BY <1>1, <1>5, MissStates
  <2>3. \A o \in Cores, m \in Lines :
            m # l => state'[o][m] \in {state[o][m], "ABSENT"}
    BY <1>1, <1>5, MissStates
  <2> QED
    BY <1>3, <2>1, <2>2, <2>3
<1> QED
  BY <1>2, <1>4, <1>5, ReadStates

LEMMA StateInvariant == Spec => []StateInv
<1>1. Init => StateInv
  <2> SUFFICES ASSUME Init PROVE StateInv
    OBVIOUS
  <2>1. TypeOK
    BY EmptyLineType DEF Init, TypeOK, Data, CacheStates, ValidStates,
       System_stats, Accuracy, Cache_stat, Read_tuple
  <2>2. \A c \in Cores, l \in Lines : state[c][l] = "ABSENT"
    BY DEF Init
  <2> QED
    BY <2>1, <2>2 DEF StateInv, SingleWriter, Inclusion,
       VictimizedIsApproximable, Resident
<1>2. StateInv /\ [Next]_vars => StateInv'
  <2> SUFFICES ASSUME StateInv, [Next]_vars PROVE StateInv'
    OBVIOUS
  <2>1. CASE Next
    <3>1. PICK c \in Cores, a \in Addrs :
              (\E v \in Values : cache_write(c, a, v)) \/ cache_read(c, a)
      BY <2>1 DEF Next
    <3>2. TypeOK'
      BY <3>1, WriteTypes, ReadTypes DEF StateInv
    <3> QED
      BY <3>1, <3>2, WriteKeepsStateInv, ReadKeepsStateInv DEF StateInv
  <2>2. CASE UNCHANGED vars
    BY <2>2 DEF vars, StateInv, TypeOK, SingleWriter, Inclusion,
       VictimizedIsApproximable, Sharers, Snooped, Resident
  <2> QED
    BY <2>1, <2>2
<1> QED
  BY <1>1, <1>2, PTL DEF Spec

(* No interleaving of calls leaves two cores with a line that one of them  *)
(* may write without a snoop: the five snoop loops of cache_write and      *)
(* cache_read agree on who owns a line.                                    *)
THEOREM SingleWriterHolds == Spec => []SingleWriter
BY StateInvariant, PTL DEF StateInv

(* The LLC never loses a line that a private cache holds, so the           *)
(* not_in_system exit of an INVALID hit is dead code.                      *)
THEOREM InclusionHolds == Spec => []Inclusion
BY StateInvariant, PTL DEF StateInv

(* A line is victimized only if some word of it may be approximated.       *)
THEOREM VictimizedIsApproximableHolds == Spec => []VictimizedIsApproximable
BY StateInvariant, PTL DEF StateInv

-----------------------------------------------------------------------------
(* Statistics.  A call changes the counters in one of these ways.          *)

LEMMA WriteStats ==
    ASSUME NEW c \in Cores, NEW a \in Addrs, NEW v \in Values,
           cache_write(c, a, v)
    PROVE  /\ accuracy' = accuracy
           /\ \/ state' = state /\ stats' = stats
              \/ \E drawn \in Draws(Sharers(c, LineOf(a))), bus \in Nat :
                    /\ \E evicted : Owning(c, LineOf(a), a, drawn, evicted)
                    /\ CountSnoops(a, Sharers(c, LineOf(a)), drawn, bus)
<1>1. CASE WriteHitModified(c, a, v)
  BY <1>1 DEF WriteHitModified
<1>2. CASE WriteHitUpgrade(c, a, v)
  <2>1. 1 \in Nat
    OBVIOUS
  <2> QED
    BY <1>2, <2>1, Zenon DEF WriteHitUpgrade
<1>3. CASE WriteMiss(c, a, v)
  <2>1. num_cores \in Nat
    BY CoresAssumption
  <2> QED
    BY <1>3, <2>1, Zenon DEF WriteMiss
<1> QED
  BY <1>1, <1>2, <1>3 DEF cache_write

LEMMA ReadStats ==
    ASSUME TypeOK, NEW c \in Cores, NEW a \in Addrs, cache_read(c, a)
    PROVE  \/ /\ \/ stats' = stats
                 \/ stats' = [stats EXCEPT !.bus_transactions = @ + 1]
              /\ accuracy' = accuracy
           \/ /\ ReadVictimized(c, a)
              /\ \/ /\ stats' = [stats EXCEPT !.bus_transactions = @ + 1,
                                              !.same_line = @ + 1]
                    /\ accuracy' = accuracy
                 \/ /\ stats' = [stats EXCEPT !.bus_transactions = @ + 1,
                                              !.success = @ + 1]
                    /\ \E valid, invalid \in Data : Tally(valid, invalid)
<1>1. CASE ReadVictimized(c, a)
  <2> DEFINE l == LineOf(a)
             valid == IF Sharers(c, l) = {} THEN 0
                      ELSE data[Max(Sharers(c, l))][l][WordOf(a)]
             invalid == data[c][l][WordOf(a)]
  <2>1. valid \in Data /\ invalid \in Data
    BY AddressTypes, SharedWordType DEF TypeOK, Data
  <2>2. CASE check_address(a)
    <3>1. /\ Tally(valid, invalid)
          /\ stats' = [stats EXCEPT !.bus_transactions = @ + 1,
                                    !.success = @ + 1]
      BY <1>1, <2>2, Zenon DEF ReadVictimized, within_threshold
    <3> QED
      BY <1>1, <2>1, <3>1, Zenon
  <2>3. CASE ~check_address(a)
    BY <1>1, <2>3, Zenon DEF ReadVictimized
  <2> QED
    BY <2>2, <2>3
<1>2. CASE ReadHit(c, a)
  BY <1>2 DEF ReadHit
<1>3. CASE ReadInvalid(c, a) \/ ReadMiss(c, a) \/ ReadNotInSystem(c, a)
  BY <1>3, Zenon DEF ReadInvalid, ReadMiss, ReadNotInSystem
<1> QED
  BY <1>1, <1>2, <1>3 DEF cache_read

(* A draw is no larger than the set it is drawn from.                      *)
LEMMA DrawnOf ==
    ASSUME NEW c \in Cores, NEW l \in Lines, NEW drawn \in Draws(Sharers(c, l))
    PROVE  /\ drawn \subseteq Sharers(c, l) /\ drawn \subseteq Cores
           /\ Cardinality(drawn) \in Nat
           /\ Cardinality(Sharers(c, l)) \in Nat
           /\ Cardinality(drawn) <= Cardinality(Sharers(c, l))
<1>1. drawn \subseteq Sharers(c, l) /\ Sharers(c, l) \subseteq Cores
  BY SnoopTypes DEF Draws
<1> QED
  BY <1>1, CoresFinite, FS_Subset

(* The counters that a snooping write leaves.                              *)
LEMMA SnoopCounters ==
    ASSUME TypeOK, NEW a, NEW sharers, NEW drawn, NEW bus,
           CountSnoops(a, sharers, drawn, bus)
    PROVE  LET d == Cardinality(drawn)
               inside == IF check_address(a) THEN d ELSE 0
           IN  /\ stats'.speculate_cases = stats.speculate_cases + d
               /\ stats'.success_addr_bound = stats.success_addr_bound + inside
               /\ stats'.failed_addr_bound =
                    stats.failed_addr_bound
                      + (IF check_address(a) THEN 0 ELSE d)
               /\ stats'.total_cases = stats.total_cases + Cardinality(sharers)
               /\ stats'.success = stats.success
               /\ stats'.rollback = stats.rollback
               /\ stats'.same_line = stats.same_line
BY DEF CountSnoops, TypeOK, System_stats

(* The counters are naturals.                                              *)
LEMMA CountersAreNatural ==
    ASSUME TypeOK
    PROVE  /\ stats.speculate_cases \in Nat /\ stats.success_addr_bound \in Nat
           /\ stats.failed_addr_bound \in Nat /\ stats.total_cases \in Nat
           /\ stats.success \in Nat /\ stats.rollback \in Nat
           /\ stats.same_line \in Nat
BY DEF TypeOK, System_stats

LEMMA SpeculationStep ==
    ASSUME TypeOK, SpeculationCounted, [Next]_vars
    PROVE  SpeculationCounted'
<1>1. ASSUME NEW c \in Cores, NEW a \in Addrs, NEW v \in Values,
             cache_write(c, a, v)
      PROVE  SpeculationCounted'
  <2>1. CASE stats' = stats
    BY <2>1 DEF SpeculationCounted
  <2>2. ASSUME NEW drawn \in Draws(Sharers(c, LineOf(a))), NEW bus \in Nat,
               CountSnoops(a, Sharers(c, LineOf(a)), drawn, bus)
        PROVE  SpeculationCounted'
    <3>1. LineOf(a) \in Lines
      BY AddressTypes
    <3> HIDE DEF Lines
    <3> DEFINE d == Cardinality(drawn)
               s == Cardinality(Sharers(c, LineOf(a)))
    <3>2. d \in Nat /\ s \in Nat /\ d <= s
      BY <3>1, DrawnOf
    <3>3. /\ stats'.speculate_cases = stats.speculate_cases + d
          /\ stats'.success_addr_bound + stats'.failed_addr_bound
               = stats.success_addr_bound + stats.failed_addr_bound + d
          /\ stats'.total_cases = stats.total_cases + s
      BY <2>2, <3>2, SnoopCounters, CountersAreNatural
    <3> QED
      BY <3>2, <3>3, CountersAreNatural DEF SpeculationCounted
  <2> QED
    BY <1>1, <2>1, <2>2, WriteStats
<1>2. ASSUME NEW c \in Cores, NEW a \in Addrs, cache_read(c, a)
      PROVE  SpeculationCounted'
  <2>1. /\ stats'.speculate_cases = stats.speculate_cases
        /\ stats'.success_addr_bound = stats.success_addr_bound
        /\ stats'.failed_addr_bound = stats.failed_addr_bound
        /\ stats'.total_cases = stats.total_cases
    BY <1>2, ReadStats DEF TypeOK, System_stats
  <2> QED
    BY <2>1 DEF SpeculationCounted
<1>3. CASE UNCHANGED vars
  BY <1>3 DEF vars, SpeculationCounted
<1> QED
  BY <1>1, <1>2, <1>3 DEF Next

(* Every copy speculated on is on one side of the address bound, and was a *)
(* valid copy met by a snooping write: for every history.                  *)
THEOREM SpeculationCountedHolds == Spec => []SpeculationCounted
<1>1. Init => SpeculationCounted
  BY DEF Init, SpeculationCounted
<1> QED
  BY <1>1, TypeCorrect, SpeculationStep, PTL DEF Spec

(* A difference within a threshold is within every wider one.              *)
LEMMA WiderThreshold ==
    ASSUME NEW i \in Thresholds, NEW j \in Thresholds, i <= j,
           NEW valid \in Data, NEW invalid \in Data,
           WithinThousandths(percentage_array[i], valid, invalid)
    PROVE  WithinThousandths(percentage_array[j], valid, invalid)
<1>1. valid \in Nat /\ invalid \in Nat
  BY ValuesAssumption DEF Data
<1>2. /\ percentage_array[i] \in Nat /\ percentage_array[j] \in Nat
      /\ percentage_array[i] <= percentage_array[j]
  BY DEF Thresholds, percentage_array
<1>3. \A p, q, x \in Nat : p <= q => p * x <= q * x
  <2> SUFFICES ASSUME NEW p \in Nat, NEW q \in Nat, NEW x \in Nat, p <= q
               PROVE  p * x <= q * x
    OBVIOUS
  <2>1. PICK d \in Nat : q = p + d
    <3>1. q - p \in Nat /\ q = p + (q - p)
      OBVIOUS
    <3> QED
      BY <3>1
  <2>2. q * x = p * x + d * x /\ d * x \in Nat
    BY <2>1
  <2> QED
    BY <2>2
<1>4. percentage_array[i] * valid <= percentage_array[j] * valid
  BY <1>1, <1>2, <1>3
<1> DEFINE difference == 1000 * (IF invalid >= valid THEN invalid - valid
                                 ELSE valid - invalid)
<1>5. difference <= percentage_array[i] * valid
  BY DEF WithinThousandths
<1>6. /\ difference \in Int /\ percentage_array[i] * valid \in Int
      /\ percentage_array[j] * valid \in Int
  BY <1>1, <1>2
<1> HIDE DEF difference
<1>7. difference <= percentage_array[j] * valid
  BY <1>4, <1>5, <1>6
<1> QED
  BY <1>7 DEF WithinThousandths, difference

(* What a tally leaves: one more verdict, and one more at every threshold. *)
LEMMA TallyCounts ==
    ASSUME TypeOK, NEW valid \in Data, NEW invalid \in Data,
           Tally(valid, invalid)
    PROVE  /\ accuracy'.success_count + accuracy'.rollback_count
                = accuracy.success_count + accuracy.rollback_count + 1
           /\ \A i \in Thresholds :
                /\ accuracy'.error_array[i] =
                     accuracy.error_array[i]
                       + (IF WithinThousandths(percentage_array[i], valid,
                                               invalid) THEN 1 ELSE 0)
                /\ accuracy'.error_array[i] + accuracy'.failure_array[i]
                     = accuracy.error_array[i] + accuracy.failure_array[i] + 1
<1> DEFINE within(p) == WithinThousandths(p, valid, invalid)
<1>1. /\ accuracy.success_count \in Nat /\ accuracy.rollback_count \in Nat
      /\ \A i \in Thresholds : /\ accuracy.error_array[i] \in Nat
                               /\ accuracy.failure_array[i] \in Nat
  BY DEF TypeOK, Accuracy
<1>2. /\ accuracy'.success_count =
           accuracy.success_count + (IF within(margin_of_error) THEN 1 ELSE 0)
      /\ accuracy'.rollback_count =
           accuracy.rollback_count + (IF within(margin_of_error) THEN 0 ELSE 1)
      /\ \A i \in Thresholds :
           /\ accuracy'.error_array[i] =
                accuracy.error_array[i]
                  + (IF within(percentage_array[i]) THEN 1 ELSE 0)
           /\ accuracy'.failure_array[i] =
                accuracy.failure_array[i]
                  + (IF within(percentage_array[i]) THEN 0 ELSE 1)
  BY Zenon DEF Tally
<1> QED
  BY <1>1, <1>2

LEMMA TalliesStep ==
    ASSUME TypeOK, TalliesAgree, [Next]_vars
    PROVE  TalliesAgree'
<1>1. ASSUME accuracy' = accuracy,
             stats'.success = stats.success, stats'.rollback = stats.rollback
      PROVE  TalliesAgree'
  BY <1>1 DEF TalliesAgree
<1>2. ASSUME NEW valid \in Data, NEW invalid \in Data, Tally(valid, invalid),
             stats'.success = stats.success + 1, stats'.rollback = stats.rollback
      PROVE  TalliesAgree'
  <2>1. accuracy'.success_count + accuracy'.rollback_count
          = stats'.success + stats'.rollback
    BY <1>2, TallyCounts, CountersAreNatural DEF TalliesAgree
  <2>2. ASSUME NEW i \in Thresholds
        PROVE  accuracy'.error_array[i] + accuracy'.failure_array[i]
                 = accuracy'.success_count + accuracy'.rollback_count
    BY <1>2, TallyCounts DEF TalliesAgree
  <2>3. ASSUME NEW i \in Thresholds, NEW j \in Thresholds, i <= j
        PROVE  accuracy'.error_array[i] <= accuracy'.error_array[j]
    <3> DEFINE one(p) == IF WithinThousandths(p, valid, invalid) THEN 1 ELSE 0
    <3>1. one(percentage_array[i]) <= one(percentage_array[j])
      BY <2>3, WiderThreshold
    <3>2. /\ accuracy'.error_array[i] =
               accuracy.error_array[i] + one(percentage_array[i])
          /\ accuracy'.error_array[j] =
               accuracy.error_array[j] + one(percentage_array[j])
      BY <1>2, TallyCounts
    <3>3. /\ accuracy.error_array[i] <= accuracy.error_array[j]
          /\ accuracy.error_array[i] \in Nat /\ accuracy.error_array[j] \in Nat
      BY <2>3 DEF TalliesAgree, TypeOK, Accuracy
    <3>4. one(percentage_array[i]) \in Nat /\ one(percentage_array[j]) \in Nat
      OBVIOUS
    <3> HIDE DEF one
    <3> QED
      BY <3>1, <3>2, <3>3, <3>4
  <2> QED
    BY <2>1, <2>2, <2>3 DEF TalliesAgree
<1>3. ASSUME NEW c \in Cores, NEW a \in Addrs, NEW v \in Values,
             cache_write(c, a, v)
      PROVE  TalliesAgree'
  BY <1>1, <1>3, WriteStats, SnoopCounters
<1>4. ASSUME NEW c \in Cores, NEW a \in Addrs, cache_read(c, a)
      PROVE  TalliesAgree'
  <2>1. CASE /\ accuracy' = accuracy
             /\ \/ stats' = stats
                \/ stats' = [stats EXCEPT !.bus_transactions = @ + 1]
                \/ stats' = [stats EXCEPT !.bus_transactions = @ + 1,
                                          !.same_line = @ + 1]
    BY <1>1, <2>1 DEF TypeOK, System_stats
  <2>2. CASE /\ stats' = [stats EXCEPT !.bus_transactions = @ + 1,
                                       !.success = @ + 1]
             /\ \E valid, invalid \in Data : Tally(valid, invalid)
    <3>1. stats'.success = stats.success + 1 /\ stats'.rollback = stats.rollback
      BY <2>2 DEF TypeOK, System_stats
    <3> QED
      BY <1>2, <2>2, <3>1
  <2> QED
    BY <1>4, <2>1, <2>2, ReadStats
<1>5. CASE UNCHANGED vars
  BY <1>1, <1>5 DEF vars
<1> QED
  BY <1>3, <1>4, <1>5 DEF Next

(* The verdicts and the tallies at each threshold agree, for every history.*)
THEOREM TalliesAgreeHolds == Spec => []TalliesAgree
<1>1. Init => TalliesAgree
  BY DEF Init, TalliesAgree
<1> QED
  BY <1>1, TypeCorrect, TalliesStep, PTL DEF Spec

-----------------------------------------------------------------------------
(* The victims that wait to be read.                                       *)

LEMMA LinesFinite == IsFiniteSet(Lines)
<1> DEFINE f == [a \in Addrs |-> LineOf(a)]
<1>1. f \in Surjection(Addrs, Lines)
  BY DEF Surjection, Lines
<1> QED
  BY <1>1, AddrsAssumption, FS_Surjection

LEMMA CopiesFinite ==
    \A S \in SUBSET (Cores \X Lines) : IsFiniteSet(S) /\ Cardinality(S) \in Nat
<1>1. IsFiniteSet(Cores) /\ IsFiniteSet(Lines)
  BY CoresFinite, LinesFinite
<1> HIDE DEF Cores, Lines
<1>2. IsFiniteSet(Cores \X Lines)
  BY <1>1, FS_Product
<1> QED
  BY <1>2, FS_Subset, FS_CardinalityType

LEMMA VictimsMeans ==
    /\ Victims \in SUBSET (Cores \X Lines)
    /\ \A o \in Cores, m \in Lines :
          <<o, m>> \in Victims <=> state[o][m] = "VICTIMIZED"
BY DEF Victims

(* A snooping write adds the copies drawn, if the address is in bounds.    *)
LEMMA VictimsOfWrite ==
    ASSUME TypeOK, NEW c \in Cores, NEW l \in Lines, NEW a, NEW evicted,
           NEW drawn \in Draws(Sharers(c, l)), Owning(c, l, a, drawn, evicted)
    PROVE  Cardinality(Victims') <=
             Cardinality(Victims)
               + (IF check_address(a) THEN Cardinality(drawn) ELSE 0)
<1> DEFINE fresh == IF check_address(a) THEN drawn \X {l} ELSE {}
<1>1. drawn \subseteq Cores /\ Cardinality(drawn) \in Nat /\ IsFiniteSet(drawn)
  BY DrawnOf, CoresFinite
<1>2. /\ fresh \in SUBSET (Cores \X Lines)
      /\ Cardinality(fresh) =
           IF check_address(a) THEN Cardinality(drawn) ELSE 0
  <2>1. IsFiniteSet({l}) /\ Cardinality({l}) = 1
    BY FS_Singleton
  <2>2. Cardinality(drawn \X {l}) = Cardinality(drawn) * 1
    BY <1>1, <2>1, FS_Product
  <2>3. drawn \X {l} \in SUBSET (Cores \X Lines)
    BY <1>1
  <2>4. Cardinality({}) = 0
    BY FS_EmptySet
  <2> QED
    BY <1>1, <2>2, <2>3, <2>4
<1>3. Victims' \subseteq Victims \union fresh
  <2> SUFFICES ASSUME NEW o \in Cores, NEW m \in Lines,
                      state'[o][m] = "VICTIMIZED"
               PROVE  <<o, m>> \in Victims \union fresh
    BY DEF Victims
  <2>1. state'[o][m] = IF m = l
                       THEN IF o = c THEN "MODIFIED"
                            ELSE IF o \in Sharers(c, l)
                                 THEN Demoted(a, drawn, o)
                                 ELSE state[o][m]
                       ELSE IF o = c /\ m \in evicted
                            THEN "ABSENT" ELSE state[o][m]
    BY DEF Owning
  <2>2. \/ state[o][m] = "VICTIMIZED"
        \/ m = l /\ o \in drawn /\ check_address(a)
    BY <2>1 DEF Demoted
  <2> QED
    BY <2>2, VictimsMeans
<1> HIDE DEF fresh
<1>4. /\ IsFiniteSet(Victims) /\ Cardinality(Victims) \in Nat
      /\ IsFiniteSet(fresh) /\ Cardinality(fresh) \in Nat
      /\ Cardinality(Victims \intersect fresh) \in Nat
  BY <1>2, VictimsMeans, CopiesFinite
<1>5. /\ IsFiniteSet(Victims \union fresh)
      /\ Cardinality(Victims \union fresh) =
           Cardinality(Victims) + Cardinality(fresh)
             - Cardinality(Victims \intersect fresh)
  BY <1>4, FS_Union
<1>6. Cardinality(Victims') <= Cardinality(Victims \union fresh)
  BY <1>3, <1>5, FS_Subset
<1>7. Cardinality(Victims') \in Nat
  BY <1>3, <1>5, FS_Subset, FS_CardinalityType
<1> QED
  BY <1>2, <1>4, <1>5, <1>6, <1>7

(* No read adds a victim, and one that finds a victim removes it.          *)
LEMMA VictimsOfRead ==
    ASSUME TypeOK, NEW c \in Cores, NEW a \in Addrs, cache_read(c, a)
    PROVE  /\ Cardinality(Victims') \in Nat /\ Cardinality(Victims) \in Nat
           /\ Cardinality(Victims') <= Cardinality(Victims)
           /\ ReadVictimized(c, a) =>
                Cardinality(Victims') <= Cardinality(Victims) - 1
<1> DEFINE l == LineOf(a)
<1>1. l \in Lines
  BY AddressTypes
<1> HIDE DEF l
<1>2. IsFiniteSet(Victims) /\ Cardinality(Victims) \in Nat
  BY VictimsMeans, CopiesFinite
<1>3. ASSUME NEW o \in Cores, NEW m \in Lines, state'[o][m] = "VICTIMIZED"
      PROVE  state[o][m] = "VICTIMIZED"
  <2>1. CASE state' = state
    BY <1>3, <2>1
  <2>2. CASE Sharing(c, l)
    BY <1>1, <1>3, <2>2, SharingStates
  <2>3. CASE ReadMiss(c, a)
    BY <1>3, <2>3, MissStates
  <2> QED
    BY <2>1, <2>2, <2>3, ReadStates DEF l
<1>4. Victims' \subseteq Victims
  BY <1>3 DEF Victims
<1>5. Cardinality(Victims') \in Nat /\ Cardinality(Victims') <= Cardinality(Victims)
  BY <1>2, <1>4, FS_Subset, FS_CardinalityType
<1>6. ASSUME ReadVictimized(c, a)
      PROVE  Cardinality(Victims') <= Cardinality(Victims) - 1
  <2>1. <<c, l>> \in Victims
    BY <1>1, <1>6, VictimsMeans DEF ReadVictimized, l
  <2>2. state'[c][l] = "SHARED"
    <3>1. Sharing(c, l)
      BY <1>6 DEF ReadVictimized, l
    <3> QED
      BY <1>1, <3>1, SharingStates
  <2>3. Victims' \subseteq Victims \ {<<c, l>>}
    BY <1>4, <2>2 DEF Victims
  <2>4. /\ IsFiniteSet(Victims \ {<<c, l>>})
        /\ Cardinality(Victims \ {<<c, l>>}) = Cardinality(Victims) - 1
    BY <1>2, <2>1, FS_RemoveElement
  <2> QED
    BY <2>3, <2>4, FS_Subset
<1> QED
  BY <1>2, <1>5, <1>6

LEMMA VictimsStep ==
    ASSUME TypeOK, VictimsAccounted, [Next]_vars
    PROVE  VictimsAccounted'
<1>1. Cardinality(Victims) \in Nat
  BY VictimsMeans, CopiesFinite
<1>2. ASSUME state' = state, stats' = stats
      PROVE  VictimsAccounted'
  BY <1>2 DEF VictimsAccounted, Victims
<1>3. ASSUME NEW c \in Cores, NEW a \in Addrs, NEW v \in Values,
             cache_write(c, a, v)
      PROVE  VictimsAccounted'
  <2> DEFINE l == LineOf(a)
  <2>1. l \in Lines
    BY AddressTypes
  <2> HIDE DEF l
  <2>2. ASSUME NEW drawn \in Draws(Sharers(c, l)), NEW bus, NEW evicted,
               Owning(c, l, a, drawn, evicted),
               CountSnoops(a, Sharers(c, l), drawn, bus)
        PROVE  VictimsAccounted'
    <3> DEFINE inside == IF check_address(a) THEN Cardinality(drawn) ELSE 0
    <3>1. inside \in Nat
      BY <2>1, DrawnOf
    <3>2. Cardinality(Victims') <= Cardinality(Victims) + inside
      BY <2>1, <2>2, VictimsOfWrite
    <3>3. /\ stats'.success_addr_bound = stats.success_addr_bound + inside
          /\ stats'.success = stats.success
          /\ stats'.rollback = stats.rollback
          /\ stats'.same_line = stats.same_line
      BY <2>2, SnoopCounters
    <3>4. Cardinality(Victims') \in Nat
      <4>1. Victims' \in SUBSET (Cores \X Lines)
        BY DEF Victims
      <4> QED
        BY <4>1, CopiesFinite
    <3> HIDE DEF inside
    <3> QED
      BY <1>1, <3>1, <3>2, <3>3, <3>4, CountersAreNatural DEF VictimsAccounted
  <2> QED
    BY <1>2, <1>3, <2>2, WriteStats DEF l
<1>4. ASSUME NEW c \in Cores, NEW a \in Addrs, cache_read(c, a)
      PROVE  VictimsAccounted'
  <2> DEFINE read(s) == s.success + s.rollback + s.same_line
  <2>1. /\ stats'.success_addr_bound = stats.success_addr_bound
        /\ \/ read(stats') = read(stats)
           \/ ReadVictimized(c, a) /\ read(stats') = read(stats) + 1
    <3>1. CASE \/ stats' = stats
               \/ stats' = [stats EXCEPT !.bus_transactions = @ + 1]
      BY <3>1 DEF TypeOK, System_stats
    <3>2. CASE /\ ReadVictimized(c, a)
               /\ \/ stats' = [stats EXCEPT !.bus_transactions = @ + 1,
                                            !.same_line = @ + 1]
                  \/ stats' = [stats EXCEPT !.bus_transactions = @ + 1,
                                            !.success = @ + 1]
      <4>1. /\ stats'.success_addr_bound = stats.success_addr_bound
            /\ stats'.rollback = stats.rollback
            /\ \/ /\ stats'.same_line = stats.same_line + 1
                  /\ stats'.success = stats.success
               \/ /\ stats'.same_line = stats.same_line
                  /\ stats'.success = stats.success + 1
        BY <3>2 DEF TypeOK, System_stats
      <4> QED
        BY <3>2, <4>1, CountersAreNatural
    <3> QED
      BY <1>4, <3>1, <3>2, ReadStats
  <2>2. read(stats) \in Nat
    BY CountersAreNatural
  <2>3. Cardinality(Victims) + read(stats) <= stats.success_addr_bound
    BY <1>1, CountersAreNatural DEF VictimsAccounted
  <2>4. stats'.success \in Int /\ stats'.rollback \in Int /\ stats'.same_line \in Int
    <3>1. stats' \in System_stats
      BY <1>4, ReadTypes DEF TypeOK
    <3> QED
      BY <3>1 DEF System_stats
  <2>5. Cardinality(Victims') + read(stats') <= stats'.success_addr_bound
    BY <1>4, <2>1, <2>2, <2>3, VictimsOfRead, CountersAreNatural
  <2> QED
    BY <1>4, <2>4, <2>5, VictimsOfRead DEF VictimsAccounted
<1>5. CASE UNCHANGED vars
  BY <1>2, <1>5 DEF vars
<1> QED
  BY <1>3, <1>4, <1>5 DEF Next

(* Victims waiting and victims read back never exceed the copies ever      *)
(* victimized, for every history.                                          *)
THEOREM VictimsAccountedHolds == Spec => []VictimsAccounted
<1>1. Init => VictimsAccounted
  <2> SUFFICES ASSUME Init PROVE VictimsAccounted
    OBVIOUS
  <2>1. Victims = {}
    BY DEF Init, Victims
  <2>2. Cardinality(Victims) = 0
    BY <2>1, FS_EmptySet
  <2> QED
    BY <2>2 DEF Init, VictimsAccounted
<1> QED
  BY <1>1, TypeCorrect, VictimsStep, PTL DEF Spec

-----------------------------------------------------------------------------
(* The counters of the cores.                                              *)

(* The caller's counters own are those it had, s, after one more call.     *)
OneMore(own, s) ==
    /\ own \in Cache_stat
    /\ Calls(own) = Calls(s) + 1
    /\ own.num_access = s.num_access + 1
    /\ own.num_write_to_llc - own.num_writes_hits - own.num_write_misses
         = s.num_write_to_llc - s.num_writes_hits - s.num_write_misses

LEMMA OwnCountsOneMore ==
    ASSUME NEW s \in Cache_stat
    PROVE  /\ OneMore([s EXCEPT !.num_access = @ + 1, !.num_writes_hits = @ + 1,
                                !.num_write_to_llc = @ + 1], s)
           /\ OneMore([s EXCEPT !.num_access = @ + 1, !.num_write_misses = @ + 1,
                                !.num_write_to_llc = @ + 1], s)
           /\ OneMore([s EXCEPT !.num_access = @ + 1, !.num_reads_hits = @ + 1], s)
           /\ \A fromLLC \in BOOLEAN :
                OneMore([s EXCEPT !.num_access = @ + 1, !.num_reads_hits = @ + 1,
                                  !.num_read_from_llc =
                                     @ + (IF fromLLC THEN 1 ELSE 0)], s)
           /\ OneMore([s EXCEPT !.num_access = @ + 1, !.num_read_misses = @ + 1,
                                !.num_read_from_llc = @ + 1], s)
<1>1. /\ s.num_access \in Nat /\ s.num_reads_hits \in Nat
      /\ s.num_writes_hits \in Nat /\ s.num_read_misses \in Nat
      /\ s.num_write_misses \in Nat /\ s.num_read_from_llc \in Nat
      /\ s.num_write_to_llc \in Nat
  BY DEF Cache_stat
<1> DEFINE writeHit == [s EXCEPT !.num_access = @ + 1, !.num_writes_hits = @ + 1,
                                 !.num_write_to_llc = @ + 1]
           writeMiss == [s EXCEPT !.num_access = @ + 1, !.num_write_misses = @ + 1,
                                  !.num_write_to_llc = @ + 1]
           readHit == [s EXCEPT !.num_access = @ + 1, !.num_reads_hits = @ + 1]
           filled(b) == [s EXCEPT !.num_access = @ + 1, !.num_reads_hits = @ + 1,
                                  !.num_read_from_llc = @ + (IF b THEN 1 ELSE 0)]
           readMiss == [s EXCEPT !.num_access = @ + 1, !.num_read_misses = @ + 1,
                                 !.num_read_from_llc = @ + 1]
<1>2. OneMore(writeHit, s)
  <2>1. writeHit \in Cache_stat
    BY OwnCounters
  <2>2. /\ writeHit.num_access = s.num_access + 1
        /\ writeHit.num_writes_hits = s.num_writes_hits + 1
        /\ writeHit.num_write_to_llc = s.num_write_to_llc + 1
        /\ writeHit.num_reads_hits = s.num_reads_hits
        /\ writeHit.num_read_misses = s.num_read_misses
        /\ writeHit.num_write_misses = s.num_write_misses
    BY DEF Cache_stat
  <2> HIDE DEF writeHit
  <2> QED
    BY <1>1, <2>1, <2>2 DEF OneMore, Calls
<1>3. OneMore(writeMiss, s)
  <2>1. writeMiss \in Cache_stat
    BY OwnCounters
  <2>2. /\ writeMiss.num_access = s.num_access + 1
        /\ writeMiss.num_writes_hits = s.num_writes_hits
        /\ writeMiss.num_write_to_llc = s.num_write_to_llc + 1
        /\ writeMiss.num_reads_hits = s.num_reads_hits
        /\ writeMiss.num_read_misses = s.num_read_misses
        /\ writeMiss.num_write_misses = s.num_write_misses + 1
    BY DEF Cache_stat
  <2> HIDE DEF writeMiss
  <2> QED
    BY <1>1, <2>1, <2>2 DEF OneMore, Calls
<1>4. OneMore(readHit, s)
  <2>1. readHit \in Cache_stat
    BY OwnCounters
  <2>2. /\ readHit.num_access = s.num_access + 1
        /\ readHit.num_writes_hits = s.num_writes_hits
        /\ readHit.num_write_to_llc = s.num_write_to_llc
        /\ readHit.num_reads_hits = s.num_reads_hits + 1
        /\ readHit.num_read_misses = s.num_read_misses
        /\ readHit.num_write_misses = s.num_write_misses
    BY DEF Cache_stat
  <2> HIDE DEF readHit
  <2> QED
    BY <1>1, <2>1, <2>2 DEF OneMore, Calls
<1>5. ASSUME NEW b \in BOOLEAN PROVE OneMore(filled(b), s)
  <2>1. filled(b) \in Cache_stat
    BY OwnCounters
  <2>2. /\ filled(b).num_access = s.num_access + 1
        /\ filled(b).num_writes_hits = s.num_writes_hits
        /\ filled(b).num_write_to_llc = s.num_write_to_llc
        /\ filled(b).num_reads_hits = s.num_reads_hits + 1
        /\ filled(b).num_read_misses = s.num_read_misses
        /\ filled(b).num_write_misses = s.num_write_misses
    BY DEF Cache_stat
  <2> HIDE DEF filled
  <2> QED
    BY <1>1, <2>1, <2>2 DEF OneMore, Calls
<1>6. OneMore(readMiss, s)
  <2>1. readMiss \in Cache_stat
    BY OwnCounters
  <2>2. /\ readMiss.num_access = s.num_access + 1
        /\ readMiss.num_writes_hits = s.num_writes_hits
        /\ readMiss.num_write_to_llc = s.num_write_to_llc
        /\ readMiss.num_reads_hits = s.num_reads_hits
        /\ readMiss.num_read_misses = s.num_read_misses + 1
        /\ readMiss.num_write_misses = s.num_write_misses
    BY DEF Cache_stat
  <2> HIDE DEF readMiss
  <2> QED
    BY <1>1, <2>1, <2>2 DEF OneMore, Calls
<1> QED
  BY <1>2, <1>3, <1>4, <1>5, <1>6, Zenon

(* Each call counts one more call of its caller and at most one more       *)
(* access, and no call, of everyone else.                                  *)
LEMMA CallCounted ==
    ASSUME TypeOK, NEW c \in Cores, NEW a \in Addrs, CalledBy(c, a)
    PROVE  /\ global_time' = global_time + 1
           /\ OneMore(cache_stats'[c], cache_stats[c])
           /\ \A o \in Cores \ {c} :
                \/ cache_stats'[o] = cache_stats[o]
                \/ cache_stats'[o] = [cache_stats[o] EXCEPT !.num_access = @ + 1]
<1>1. cache_stats \in [Cores -> Cache_stat]
  BY DEF TypeOK
<1>2. cache_stats[c] \in Cache_stat
  BY <1>1
<1>3. \A own, snooped :
        OneMore(own, cache_stats[c]) /\ CountCall(c, snooped, own)
          => /\ OneMore(cache_stats'[c], cache_stats[c])
             /\ \A o \in Cores \ {c} :
                  \/ cache_stats'[o] = cache_stats[o]
                  \/ cache_stats'[o] = [cache_stats[o] EXCEPT !.num_access = @ + 1]
  BY DEF CountCall
<1>4. \E own, snooped : OneMore(own, cache_stats[c]) /\ CountCall(c, snooped, own)
  <2>1. CASE \E v \in Values : cache_write(c, a, v)
    BY <1>2, <2>1, OwnCountsOneMore, Zenon
       DEF cache_write, WriteHitModified, WriteHitUpgrade, WriteMiss
  <2>2. CASE ReadHit(c, a) \/ ReadVictimized(c, a) \/ ReadMiss(c, a)
             \/ ReadNotInSystem(c, a)
    BY <1>2, <2>2, OwnCountsOneMore, Zenon
       DEF ReadHit, ReadVictimized, ReadMiss, ReadNotInSystem
  <2>3. CASE ReadInvalid(c, a)
    <3>1. (Sharers(c, LineOf(a)) = {}) \in BOOLEAN
      OBVIOUS
    <3> QED
      BY <1>2, <2>3, <3>1, OwnCountsOneMore, Zenon DEF ReadInvalid
  <2> QED
    BY <2>1, <2>2, <2>3 DEF CalledBy, cache_read
<1>5. global_time' = global_time + 1
  BY Zenon
     DEF CalledBy, cache_read, ReadHit, ReadVictimized, ReadInvalid, ReadMiss,
         ReadNotInSystem, cache_write, WriteHitModified, WriteHitUpgrade,
         WriteMiss, Tick
<1> QED
  BY <1>3, <1>4, <1>5

LEMMA CallsStep ==
    ASSUME TypeOK, TypeOK', EachCallCountedOnce, [Next]_vars
    PROVE  EachCallCountedOnce'
<1>1. CASE UNCHANGED vars
  BY <1>1 DEF vars, EachCallCountedOnce
<1>2. ASSUME NEW c \in Cores, NEW a \in Addrs, CalledBy(c, a)
      PROVE  EachCallCountedOnce'
  <2>1. /\ cache_stats \in [Cores -> Cache_stat] /\ global_time \in Nat
        /\ cache_stats' \in [Cores -> Cache_stat] /\ global_time' = global_time + 1
    BY <1>2, CallCounted DEF TypeOK
  <2>2. \A o \in Cores :
          /\ cache_stats[o].num_access \in Nat
          /\ cache_stats[o].num_write_to_llc \in Nat
          /\ cache_stats[o].num_writes_hits \in Nat
          /\ cache_stats[o].num_write_misses \in Nat
          /\ cache_stats'[o].num_access \in Nat
          /\ cache_stats'[o].num_write_to_llc \in Nat
          /\ cache_stats'[o].num_writes_hits \in Nat
          /\ cache_stats'[o].num_write_misses \in Nat
          /\ Calls(cache_stats[o]) \in Nat
          /\ Calls(cache_stats'[o]) \in Nat
    BY <2>1 DEF Cache_stat, Calls
  <2>3. OneMore(cache_stats'[c], cache_stats[c])
    BY <1>2, CallCounted
  <2>4. \A o \in Cores \ {c} :
          /\ Calls(cache_stats'[o]) = Calls(cache_stats[o])
          /\ cache_stats'[o].num_access
               \in {cache_stats[o].num_access, cache_stats[o].num_access + 1}
          /\ cache_stats'[o].num_write_to_llc = cache_stats[o].num_write_to_llc
          /\ cache_stats'[o].num_writes_hits = cache_stats[o].num_writes_hits
          /\ cache_stats'[o].num_write_misses = cache_stats[o].num_write_misses
    <3> SUFFICES ASSUME NEW o \in Cores \ {c},
                        cache_stats'[o] = [cache_stats[o] EXCEPT !.num_access = @ + 1]
                 PROVE  /\ Calls(cache_stats'[o]) = Calls(cache_stats[o])
                        /\ cache_stats'[o].num_access = cache_stats[o].num_access + 1
                        /\ cache_stats'[o].num_write_to_llc
                             = cache_stats[o].num_write_to_llc
                        /\ cache_stats'[o].num_writes_hits
                             = cache_stats[o].num_writes_hits
                        /\ cache_stats'[o].num_write_misses
                             = cache_stats[o].num_write_misses
      BY <1>2, CallCounted, Zenon
    <3>1. cache_stats[o] \in Cache_stat
      BY <2>1
    <3> QED
      BY <3>1 DEF Cache_stat, Calls
  <2> DEFINE f == [o \in Cores |-> Calls(cache_stats[o])]
             g == [o \in Cores |-> Calls(cache_stats'[o])]
  <2>5. SumFunctionOnSet(g, Cores) = SumFunctionOnSet(f, Cores) + g[c] - f[c]
    <3>1. /\ \A o \in Cores : f[o] \in Int
          /\ g[c] \in Int
          /\ \A o \in Cores \ {c} : g[o] = f[o]
      BY <2>2, <2>4
    <3> HIDE DEF f, g
    <3>2. IsFiniteSet(Cores)
      BY CoresFinite
    <3> QED
      BY <3>1, <3>2, SumChanges
  <2>6. g[c] = f[c] + 1 /\ f[c] \in Nat
    BY <2>2, <2>3 DEF OneMore
  <2>7. SumFunctionOnSet(f, Cores) = global_time
    BY DEF EachCallCountedOnce, SumFunction
  <2> HIDE DEF f, g
  <2>8. SumFunctionOnSet(g, Cores) = global_time'
    BY <2>1, <2>5, <2>6, <2>7
  <2>9. SumFunction([o \in Cores |-> Calls(cache_stats[o])])' = global_time'
    BY <2>8 DEF g, SumFunction
  <2>10. ASSUME NEW o \in Cores
         PROVE  /\ Calls(cache_stats'[o]) <= cache_stats'[o].num_access
                /\ cache_stats'[o].num_access <= global_time'
                /\ cache_stats'[o].num_write_to_llc
                     = cache_stats'[o].num_writes_hits
                         + cache_stats'[o].num_write_misses
    <3>1. /\ Calls(cache_stats[o]) <= cache_stats[o].num_access
          /\ cache_stats[o].num_access <= global_time
          /\ cache_stats[o].num_write_to_llc
               = cache_stats[o].num_writes_hits + cache_stats[o].num_write_misses
      BY DEF EachCallCountedOnce
    <3>2. CASE o = c
      BY <2>1, <2>2, <2>3, <3>1, <3>2 DEF OneMore
    <3>3. CASE o # c
      BY <2>1, <2>2, <2>4, <3>1, <3>3
    <3> QED
      BY <3>2, <3>3
  <2> QED
    BY <2>9, <2>10 DEF EachCallCountedOnce
<1> QED
  BY <1>1, <1>2 DEF Next, CalledBy

(* The hits and misses of all cores add up to the calls made, for every    *)
(* number of cores and every history.                                      *)
THEOREM EachCallCountedOnceHolds == Spec => []EachCallCountedOnce
<1>1. Init => EachCallCountedOnce
  <2> SUFFICES ASSUME Init PROVE EachCallCountedOnce
    OBVIOUS
  <2> DEFINE f == [c \in Cores |-> Calls(cache_stats[c])]
  <2>1. /\ global_time = 0
        /\ \A c \in Cores :
              /\ Calls(cache_stats[c]) = 0
              /\ cache_stats[c].num_access = 0
              /\ cache_stats[c].num_write_to_llc = 0
              /\ cache_stats[c].num_writes_hits = 0
              /\ cache_stats[c].num_write_misses = 0
    BY DEF Init, Calls
  <2>2. \A c \in Cores : f[c] = 0
    BY <2>1
  <2> HIDE DEF f
  <2>3. SumFunctionOnSet(f, Cores) = 0
    BY <2>2, CoresFinite, SumOfZeros
  <2>4. SumFunction([c \in Cores |-> Calls(cache_stats[c])]) = 0
    BY <2>3 DEF f, SumFunction
  <2> QED
    BY <2>1, <2>4 DEF EachCallCountedOnce
<1>2. TypeOK /\ TypeOK' /\ EachCallCountedOnce /\ [Next]_vars => EachCallCountedOnce'
  BY CallsStep
<1> QED
  BY <1>1, <1>2, TypeCorrect, PTL DEF Spec
=============================================================================
